---- MODULE Spec2Model ----
(***************************************************************************)
(* A model of python-ambariclient's lazy-loading resource graph            *)
(* (ambariclient/base.py), its wait()/poll loop and the Host override     *)
(* (ambariclient/models.py).                                               *)
(*                                                                         *)
(* The object graph is a heap of model objects (nodes) and collections.    *)
(* Every method is a function from a world (heap + gateway log) and the    *)
(* gateway's answers to a result: the new world, the exception raised (or  *)
(* "none") and the returned value.  The HTTP gateway is the environment:   *)
(* each call is appended to the log and its answer is an input.            *)
(***************************************************************************)
EXTENDS Integers, Sequences, FiniteSets, TLC

\* ------------------------------------------------------------------ bounds
MaxNodes == 2        \* model objects ever constructed in one behaviour
MaxCalls == 2        \* gateway calls recorded in one behaviour
MaxTime == 4         \* the longest timeout passed to wait(), and the seconds
                     \* of a poll loop that are explored
MaxLatency == 1      \* seconds a refresh may take on top of the sleep
MaxJobs == 1         \* mutating calls (update, start) in one behaviour
MaxWaits == 1        \* wait() calls in one behaviour
MaxSubscriptions == 2    \* events.subscribe calls in one behaviour
MaxObjects == 3          \* model objects on the heap while collections are used
MaxCollCalls == 2        \* gateway calls recorded while collections are used
MaxEventCalls == 2       \* gateway calls recorded while events are watched

\* ------------------------------------------------------ program constants
default_interval(cls) == IF cls = "Host" THEN 5 ELSE 15
default_timeout(cls) == IF cls = "Host" THEN 180 ELSE 3600
Attempts == 6        \* inflate attempts of Host.wait
RetrySleep == 5      \* seconds Host.wait sleeps after a not-found

\* -------------------------------------------------------- resource catalog
Classes == {"Cluster", "Host", "Request", "Service", "Blueprint", "BlueprintHostGroup"}

\* Model.primary_key of the catalog classes used here
primary_key(cls) ==
    CASE cls = "Cluster" -> "cluster_name"
      [] cls = "Host" -> "host_name"
      [] cls = "Request" -> "id"
      [] cls = "Service" -> "service_name"
      [] cls = "Blueprint" -> "blueprint_name"
      [] cls = "BlueprintHostGroup" -> "name"

\* QueryableModel.data_key
data_key(cls) ==
    CASE cls = "Cluster" -> "Clusters"
      [] cls = "Host" -> "Hosts"
      [] cls = "Request" -> "Requests"
      [] cls = "Service" -> "ServiceInfo"
      [] cls = "Blueprint" -> "Blueprints"

\* QueryableModel.path
path(cls) ==
    CASE cls = "Cluster" -> "clusters"
      [] cls = "Host" -> "hosts"
      [] cls = "Request" -> "requests"
      [] cls = "Service" -> "services"
      [] cls = "Blueprint" -> "blueprints"

\* Model.fields (the ones the model reads)
fields(cls) ==
    CASE cls = "Cluster" -> {"cluster_name", "health_report"}
      [] cls = "Host" -> {"host_name", "host_status", "maintenance_state"}
      [] cls = "Request" -> {"id", "request_status", "progress_percent"}
      [] cls = "Service" -> {"service_name", "state"}
      [] cls = "Blueprint" -> {"blueprint_name", "stack_name"}
      [] cls = "BlueprintHostGroup" -> {"name", "cardinality"}

\* Model.relationships: relationship name -> class of the members
relationships(cls) ==
    CASE cls = "Cluster" -> {"hosts", "requests", "services"}
      [] cls = "Blueprint" -> {"host_groups"}
      [] OTHER -> {}

rel_class(rel) ==
    CASE rel = "hosts" -> "Host" [] rel = "requests" -> "Request" [] rel = "services" -> "Service"
      [] rel = "host_groups" -> "BlueprintHostGroup"

\* classes derived from DependentModel: kept in a DependentModelCollection,
\* not backed by a url
Dependent(cls) == cls = "BlueprintHostGroup"

\* classes that mix in PollableMixin
Pollable(cls) == cls \in {"Host", "Request"}

\* classes that mix in GeneratedIdentifierMixin
GeneratedIdentifier(cls) == cls = "Request"

\* ------------------------------------------------------------- the heap
NoHref == <<>>       \* _href = None
NoNode == 0          \* a null reference to a model object
Root == <<0, "clusters">>    \* client.clusters, the top-level collection
Blueprints == <<0, "blueprints">>    \* client.blueprints

\* a collection is named by its parent node and relationship name
CollIds ==
    {Root, Blueprints}
        \cup ((1..(MaxNodes + 1)) \X {"hosts", "requests", "services", "host_groups"})

\* ModelCollection.__init__ / QueryableModelCollection.__init__
NewColl(cls, parent) ==
    [model_class |-> cls, parent |-> parent, is_inflated |-> FALSE,
     models |-> <<>>, request |-> NoNode, iter_marker |-> 0]

\* Model.__init__ / QueryableModel.__init__
NewModel(cls, parent, href, data) ==
    [cls |-> cls, parent |-> parent, href |-> href, data |-> data,
     is_inflated |-> FALSE, is_inflating |-> FALSE, request |-> NoNode,
     rels |-> {}]

\* results of a method: the world after it, the exception, the value
Ok(w, v) == [w |-> w, exc |-> "none", val |-> v]
Raise(w, e) == [w |-> w, exc |-> e, val |-> <<>>]

SetColl(w, c, rec) == [w EXCEPT !.colls = [x \in (DOMAIN @) \cup {c} |-> IF x = c THEN rec ELSE @[x]]]

\* a dict updated with another one (dict.update)
Update(d, e) == [k \in (DOMAIN d) \cup (DOMAIN e) |-> IF k \in DOMAIN e THEN e[k] ELSE d[k]]

EmptyDict == [k \in {} |-> ""]
Dict1(k, v) == [x \in {k} |-> v]

\* -------------------------------------------------------- gateway answers
\* A parsed response body is a mapping: 'href', sections keyed by a data_key
\* ('Clusters', 'Hosts', 'Requests'), embedded relationship lists and, for a
\* collection, 'items'.  err is the exception HttpClient.request raised
\* instead ("none": it returned a body).  items is <<>> when the key is
\* absent and <<list>> when it is present.
Response(err, href, sections, rels, items) ==
    [err |-> err, href |-> href, sections |-> sections, rels |-> rels, items |-> items]

NoSections == [k \in {} |-> EmptyDict]
NoRels == [k \in {} |-> <<>>]
Section(key, d) == [k \in {key} |-> d]

\* {} : what the mocked gateway of tests/test_models.py returns
EmptyResponse == Response("none", NoHref, NoSections, NoRels, <<>>)
Failure(e) == Response(e, NoHref, NoSections, NoRels, <<>>)

\* an item handed to a collection call: an identifier or a response fragment
IdItem(id) == [isdict |-> FALSE, id |-> id, href |-> NoHref, sections |-> NoSections]
DictItem(href, sections) == [isdict |-> TRUE, id |-> "", href |-> href, sections |-> sections]

\* What the server holds.  The last segment of a url tells a collection
\* (a path) from a resource (an identifier).
Paths == {"clusters", "hosts", "requests", "services", "blueprints"}
Last(u) == u[Len(u)]
IsCollUrl(u) == Last(u) \in Paths
ClassAt(u) ==
    LET p == IF IsCollUrl(u) THEN Last(u) ELSE u[Len(u) - 1]
    IN CASE p = "clusters" -> "Cluster" [] p = "hosts" -> "Host"
         [] p = "services" -> "Service" [] p = "blueprints" -> "Blueprint"
         [] OTHER -> "Request"
ServerMembers(u) ==
    CASE Last(u) = "clusters" -> <<"c1">> [] Last(u) = "services" -> <<"s1">>
      [] Last(u) = "blueprints" -> <<"b1">> [] OTHER -> <<"h1">>

\* the fields of a resource as the server reports them in state st
ServerData(cls, id, st) ==
    CASE cls = "Cluster" -> [k \in {"cluster_name", "health_report"} |->
                                IF k = "cluster_name" THEN id ELSE st]
      [] cls = "Host" -> [k \in {"host_name", "host_status", "maintenance_state"} |->
                                CASE k = "host_name" -> id
                                  [] k = "host_status" -> (IF st = "done" THEN "HEALTHY" ELSE "UNKNOWN")
                                  [] OTHER -> (IF st = "both" THEN "ON" ELSE "OFF")]
      [] cls = "Request" -> [k \in {"id", "request_status", "progress_percent"} |->
                                CASE k = "id" -> id
                                  [] k = "request_status" ->
                                       (IF st \in {"failed", "both"} THEN "FAILED" ELSE "IN_PROGRESS")
                                  [] OTHER -> (IF st \in {"done", "both"} THEN "100" ELSE "50")]
      [] cls = "Service" -> [k \in {"service_name", "state"} |->
                                IF k = "service_name" THEN id ELSE st]
      [] cls = "Blueprint" -> [k \in {"blueprint_name", "stack_name"} |->
                                IF k = "blueprint_name" THEN id ELSE st]

\* the primary-key value of a resource that the server reports under
\* another name than the one it was asked for
Renamed == "x1"

\* the 'Requests' section of a response to a call that started a job
JobHref == <<"base_url", "api", "v1", "clusters", "c1", "requests", "1">>
JobSection == Dict1("id", "1")

\* The body the gateway returns for a call on url u when the environment
\* answers it in way a:
\*   "empty"      {} (the mock of the tests)
\*   "NotFound", "Error"   the call raises
\*   "job"        the call started a server-side job: href + 'Requests'
\*   "embedded"   a resource with its hosts embedded
\*   "noHosts"    a resource with an empty list of hosts embedded
\*   "renamed"    the resource, reported under another primary-key value
\*   otherwise    the resource (or the collection's items) in state a
Answer(a, u) ==
    CASE a = "empty" -> EmptyResponse
      [] a \in {"NotFound", "Error"} -> Failure(a)
      [] a = "job" -> Response("none", JobHref, Section("Requests", JobSection), NoRels, <<>>)
      [] IsCollUrl(u) ->
            Response("none", u, NoSections, NoRels,
                     << [i \in 1..Len(ServerMembers(u)) |->
                           DictItem(u \o <<ServerMembers(u)[i]>>,
                                    Section(data_key(ClassAt(u)),
                                            Dict1(primary_key(ClassAt(u)), ServerMembers(u)[i])))] >>)
      [] a = "embedded" ->
            Response("none", u, Section(data_key(ClassAt(u)), ServerData(ClassAt(u), Last(u), "ok")),
                     [k \in {"hosts"} |->
                        << DictItem(u \o <<"hosts", "h1">>, Section("Hosts", Dict1("host_name", "h1"))) >>],
                     <<>>)
      [] a = "noHosts" ->
            Response("none", u, Section(data_key(ClassAt(u)), ServerData(ClassAt(u), Last(u), "ok")),
                     [k \in {"hosts"} |-> <<>>], <<>>)
      [] a = "renamed" ->
            Response("none", u, Section(data_key(ClassAt(u)), ServerData(ClassAt(u), Renamed, "ok")),
                     NoRels, <<>>)
      [] OTHER -> Response("none", u, Section(data_key(ClassAt(u)), ServerData(ClassAt(u), Last(u), a)),
                           NoRels, <<>>)

\* HttpClient.request: log the call, take the environment's next answer;
\* the value is the parsed body, unless the call raises
request(w, verb, u) ==
    LET a == IF w.answers = <<>> THEN "empty" ELSE Head(w.answers)
        w1 == [w EXCEPT !.calls = Append(@, <<verb, u>>),
                        !.answers = IF @ = <<>> THEN @ ELSE Tail(@)]
    IN IF a \in {"NotFound", "Error"} THEN Raise(w1, a) ELSE Ok(w1, Answer(a, u))

\* statement sequencing: continue with K on the result r of the statement
\* before, unless that raised
Then(r, K(_)) == IF r.exc = "none" THEN K(r) ELSE r

\* try ... except e: continue with K when the statement raised e
Except(r, e, K(_)) == IF r.exc = e THEN K(r) ELSE r

\* ------------------------------------------------------------------ events
\* events.state_list
states == {"ANY", "STARTED", "FAILED", "FINISHED", "PROGRESS"}

\* [x.__name__ for x in inspect.getmro(cls)], most specific first; the
\* models of the catalog and the collection classes they are kept in
mro(cls) ==
    CASE cls = "Cluster" -> <<"Cluster", "QueryableModel", "Model", "object">>
      [] cls = "Host" -> <<"ClusterHost", "Host", "PollableMixin", "QueryableModel", "Model",
                           "object">>
      [] cls = "Request" -> <<"Request", "PollableMixin", "GeneratedIdentifierMixin",
                              "QueryableModel", "Model", "object">>
      [] cls = "Service" -> <<"Service", "QueryableModel", "Model", "object">>
      [] cls = "Blueprint" -> <<"Blueprint", "QueryableModel", "Model", "object">>
      [] cls = "BlueprintHostGroup" -> <<"BlueprintHostGroup", "DependentModel", "Model", "object">>
      [] cls = "DependentModelCollection" ->
            <<"DependentModelCollection", "ModelCollection", "object">>
      [] cls = "ClusterHosts" ->
            <<"ClusterHosts", "QueryableModelCollection", "ModelCollection", "object">>
      [] cls = "ClusterServiceCollection" ->
            <<"ClusterServiceCollection", "QueryableModelCollection", "ModelCollection",
              "object">>
      [] OTHER -> <<"QueryableModelCollection", "ModelCollection", "object">>

\* '.'.join([cls, event, event_state]), the key of EVENT_HANDLERS
event_key(cls, event, event_state) == <<cls, event, event_state>>

\* no registration at all: EVENT_HANDLERS = {}
NoHandlers == [k \in {} |-> <<>>]

\* publish, the loop over potential from position i on: the callbacks of the
\* first exact registration (the loop breaks there), and the fallbacks, the
\* callbacks of the first ANY registration met before it; fallbacks is <<>>
\* for None and <<list>> for a list
RECURSIVE walk(_, _, _, _, _, _)
walk(h, potential, event, event_state, i, fallbacks) ==
    IF i > Len(potential) THEN [callbacks |-> <<>>, fallbacks |-> fallbacks]
    ELSE IF event_key(potential[i], event, event_state) \in DOMAIN h
    THEN [callbacks |-> h[event_key(potential[i], event, event_state)],
          fallbacks |-> fallbacks]
    ELSE IF fallbacks = <<>> /\ event_key(potential[i], event, "ANY") \in DOMAIN h
    THEN walk(h, potential, event, event_state, i + 1,
              << h[event_key(potential[i], event, "ANY")] >>)
    ELSE walk(h, potential, event, event_state, i + 1, fallbacks)

\* the names of an mro from the least specific to the most specific
reversed(seq) == [i \in 1..Len(seq) |-> seq[Len(seq) + 1 - i]]

\* selected that walks the classes from the least specific one
selected_least_specific(h, pub_cls, event, event_state) ==
    LET r == walk(h, reversed(mro(pub_cls)), event, event_state, 1, <<>>)
    IN IF r.fallbacks # <<>> THEN r.fallbacks[1] ELSE r.callbacks

\* selected that fires the fallbacks and the exact registration's callbacks
selected_with_fallbacks(h, pub_cls, event, event_state) ==
    LET r == walk(h, mro(pub_cls), event, event_state, 1, <<>>)
    IN IF r.fallbacks # <<>> THEN r.fallbacks[1] \o r.callbacks ELSE r.callbacks

\* publish, the callbacks it fires: the fallbacks whenever there are any
selected(h, pub_cls, event, event_state) ==
    LET r == walk(h, mro(pub_cls), event, event_state, 1, <<>>)
    IN IF r.fallbacks # <<>> THEN r.fallbacks[1] ELSE r.callbacks

\* events.publish by an object obj of class pub_cls: the call is logged with
\* the number of gateway calls made before it; nothing fires when nothing
\* is registered, otherwise every selected callback in order
publish(w, pub_cls, obj, event, event_state) ==
    LET w1 == [w EXCEPT !.published = Append(@, <<obj, event, event_state, Len(w.calls)>>)]
    IN IF DOMAIN w.handlers = {} THEN w1
       ELSE [w1 EXCEPT !.fired = @ \o selected(w.handlers, pub_cls, event, event_state)]

\* events.subscribe on the registrations h
subscribe(h, cls, event, callback, event_state) ==
    LET key == event_key(cls, event, IF event_state = "None" THEN "ANY" ELSE event_state)
    IN [k \in (DOMAIN h) \cup {key} |->
            IF k = key THEN (IF k \in DOMAIN h THEN Append(h[k], callback) ELSE <<callback>>)
            ELSE h[k]]

\* evented_exit without the except clause
evented_exit_quiet(r, pub_cls, obj, name) ==
    [r EXCEPT !.w = publish(@, pub_cls, obj, name, "FINISHED")]

\* evented, when the method called has come to result r: FAILED if it
\* raised, FINISHED in any case, and the result (or the error) goes on
evented_exit(r, pub_cls, obj, name) ==
    IF r.exc = "none"
    THEN [r EXCEPT !.w = publish(@, pub_cls, obj, name, "FINISHED")]
    ELSE [r EXCEPT !.w = publish(publish(@, pub_cls, obj, name, "FAILED"),
                                 pub_cls, obj, name, "FINISHED")]

\* the objects that publish: a model, a collection
NodeObj(n) == <<"node", n>>
CollObj(c) == <<"coll", c[1], c[2]>>

\* the class of a collection of models of class cls
collection_class(cls) ==
    CASE cls = "BlueprintHostGroup" -> "DependentModelCollection"
      [] cls = "Host" -> "ClusterHosts"
      [] cls = "Service" -> "ClusterServiceCollection"
      [] OTHER -> "QueryableModelCollection"

\* ---------------------------------------------------------- Model methods
RECURSIVE url(_, _), coll_url(_, _)
RECURSIVE inflate(_, _), load(_, _, _), getrel(_, _, _), call_items(_, _, _, _)

\* Model.cluster: the Cluster instance a model belongs to (walk up the
\* parents; every model of the catalog used here has one)
cluster(w, n) ==
    IF w.nodes[n].cls = "Cluster" THEN n ELSE w.colls[w.nodes[n].parent].parent

\* Model.identifier and GeneratedIdentifierMixin.identifier, as url reads
\* it on a model whose _href is None.  With the primary key missing,
\* Model.identifier calls inflate(): on an inflated model that is a no-op and
\* the lookup raises KeyError; otherwise inflate() marks the model as
\* inflating (unless it is marked already), asks for url again, comes back
\* here and finds the mark: ClientError, before any gateway call.
identifier(w, n) ==
    LET m == w.nodes[n]
        pk == primary_key(m.cls)
    IN IF GeneratedIdentifier(m.cls)
       THEN Ok(w, IF pk \in DOMAIN m.data THEN m.data[pk] ELSE "Unknown")
       ELSE IF pk \in DOMAIN m.data THEN Ok(w, m.data[pk])
       ELSE IF m.is_inflated THEN Raise(w, "KeyError")
       ELSE Raise([w EXCEPT !.nodes[n].is_inflating = TRUE], "ClientError")

\* QueryableModel.url
url(w, n) ==
    IF w.nodes[n].href # NoHref THEN Ok(w, w.nodes[n].href)
    ELSE Then(identifier(w, n), LAMBDA i :
            IF i.val = "" THEN Raise(i.w, "ClientError")
            ELSE Then(coll_url(i.w, w.nodes[n].parent), LAMBDA p :
                    Ok(p.w, p.val \o <<i.val>>)))

\* a collection url that starts at the API root whatever the parent
coll_url_rooted(w, c) ==
    Ok(w, <<"base_url", "api", "v1", path(w.colls[c].model_class)>>)

\* QueryableModelCollection.url
coll_url(w, c) ==
    IF w.colls[c].parent = NoNode
    THEN Ok(w, <<"base_url", "api", "v1", path(w.colls[c].model_class)>>)
    ELSE Then(url(w, w.colls[c].parent), LAMBDA p :
            Ok(p.w, p.val \o <<path(w.colls[c].model_class)>>))

\* QueryableModel.inflate
inflate(w, n) ==
    IF w.nodes[n].is_inflated THEN Ok(w, n)
    ELSE IF w.nodes[n].is_inflating THEN Raise(w, "ClientError")
    ELSE Then(url([w EXCEPT !.nodes[n].is_inflating = TRUE], n), LAMBDA u :
         Then(request(u.w, "GET", u.val), LAMBDA g :
         Then(load(g.w, n, g.val), LAMBDA l :
            Ok([l.w EXCEPT !.nodes[n].is_inflated = TRUE,
                           !.nodes[n].is_inflating = FALSE], n))))

\* the collection of relationship rel of model n, built on first use
cached(w, n, rel) ==
    IF rel \in w.nodes[n].rels THEN Ok(w, <<n, rel>>)
    ELSE Ok(SetColl([w EXCEPT !.nodes[n].rels = @ \cup {rel}],
                    <<n, rel>>, NewColl(rel_class(rel), n)),
            <<n, rel>>)

\* getrel without the inflation that precedes the cache lookup
getrel_no_inflate(w, n, rel) == cached(w, n, rel)

\* Model.__getattr__ for a name in self.relationships
getrel(w, n, rel) == Then(inflate(w, n), LAMBDA r : cached(r.w, n, rel))

\* one more model object on the heap
Allocate(w, m) == [w EXCEPT !.nodes = Append(@, m)]
Member(w, c, id) == [w EXCEPT !.colls[c].models = Append(@, id)]

\* QueryableModelCollection.__call__ with a list: one new model per item
\* (the loop body), i the position in the list
call_items(w, c, items, i) ==
    IF i > Len(items) THEN Ok(w, c)
    ELSE IF items[i].isdict
    THEN Then(load(Allocate(w, NewModel(w.colls[c].model_class, c, items[i].href, EmptyDict)),
                   Len(w.nodes) + 1,
                   Response("none", items[i].href, items[i].sections, NoRels, <<>>)),
              LAMBDA l : call_items(Member(l.w, c, Len(w.nodes) + 1), c, items, i + 1))
    ELSE Then(coll_url(w, c), LAMBDA cu :
              call_items(Member(Allocate(cu.w, NewModel(w.colls[c].model_class, c,
                                                        cu.val \o <<items[i].id>>,
                                                        Dict1(primary_key(w.colls[c].model_class),
                                                              items[i].id))),
                                c, Len(w.nodes) + 1),
                         c, items, i + 1))

\* coll_call_list that leaves the collection unmaterialized
coll_call_list_unmarked(w, c, items) ==
    IF Len(items) > 0
    THEN call_items([w EXCEPT !.colls[c].models = <<>>], c, items, 1)
    ELSE Ok(w, c)

\* QueryableModelCollection.__call__ with a list (or several arguments)
coll_call_list(w, c, items) ==
    IF Len(items) > 0
    THEN call_items([w EXCEPT !.colls[c].models = <<>>, !.colls[c].is_inflated = TRUE],
                    c, items, 1)
    ELSE Ok(w, c)

\* coll_call_one that also makes the new model a member
coll_call_one_appending(w, c, id) ==
    Then(coll_url(w, c), LAMBDA cu :
        Ok(Member(Allocate(cu.w, NewModel(w.colls[c].model_class, c, cu.val \o <<id>>,
                                          Dict1(primary_key(w.colls[c].model_class), id))),
                  c, Len(w.nodes) + 1),
           Len(w.nodes) + 1))

\* QueryableModelCollection.__call__ with one argument that is not a list:
\* a new shallow model, which is not made a member
coll_call_one(w, c, id) ==
    Then(coll_url(w, c), LAMBDA cu :
        Ok(Allocate(cu.w, NewModel(w.colls[c].model_class, c, cu.val \o <<id>>,
                                   Dict1(primary_key(w.colls[c].model_class), id))),
           Len(w.nodes) + 1))

\* attach_job that keeps the reference to a job not yet waited on
attach_job_keeping(w, n, resp) ==
    Then(getrel(w, cluster(w, n), "requests"), LAMBDA g :
        Ok([Allocate(g.w, NewModel("Request", g.val, resp.href, resp.sections["Requests"]))
               EXCEPT !.nodes[n].request = IF @ = NoNode THEN Len(g.w.nodes) + 1 ELSE @], n))

\* QueryableModel.load, the branch that stores the job a response announces:
\* a Request under self.cluster.requests, referenced by self.request
attach_job(w, n, resp) ==
    Then(getrel(w, cluster(w, n), "requests"), LAMBDA g :
        Ok([Allocate(g.w, NewModel("Request", g.val, resp.href, resp.sections["Requests"]))
               EXCEPT !.nodes[n].request = Len(g.w.nodes) + 1], n))

\* absorb that empties the attribute bag when the response has no section
\* for the model
absorb_clearing(w, n, resp) ==
    IF data_key(w.nodes[n].cls) \notin DOMAIN resp.sections
    THEN Ok([w EXCEPT !.nodes[n].data = EmptyDict], n)
    ELSE Ok([w EXCEPT !.nodes[n].data = Update(@, resp.sections[data_key(w.nodes[n].cls)])], n)

\* QueryableModel.load, the branch that absorbs the resource's own data:
\* href, the data_key section and, with it, the embedded relationships (the
\* gateway answers modelled embed only 'hosts')
absorb(w, n, resp) ==
    LET dk == data_key(w.nodes[n].cls)
        w1 == IF resp.href # NoHref THEN [w EXCEPT !.nodes[n].href = resp.href] ELSE w
    IN IF dk \notin DOMAIN resp.sections THEN Ok(w1, n)
       ELSE IF "hosts" \in relationships(w.nodes[n].cls) /\ "hosts" \in DOMAIN resp.rels
       THEN Then(coll_call_list(
                    SetColl([w1 EXCEPT !.nodes[n].data = Update(@, resp.sections[dk]),
                                       !.nodes[n].rels = @ \cup {"hosts"}],
                            <<n, "hosts">>, NewColl(rel_class("hosts"), n)),
                    <<n, "hosts">>, resp.rels["hosts"]),
                 LAMBDA r : Ok(r.w, n))
       ELSE Ok([w1 EXCEPT !.nodes[n].data = Update(@, resp.sections[dk])], n)

\* load that also merges the announcement of a job into the attribute bag
load_method_merging(w, n, resp) ==
    IF "Requests" \in DOMAIN resp.sections /\ data_key(w.nodes[n].cls) # "Requests"
    THEN Then(attach_job(w, n, resp), LAMBDA r :
            Ok([r.w EXCEPT !.nodes[n].data = Update(@, resp.sections["Requests"])], n))
    ELSE absorb(w, n, resp)

\* QueryableModel.load, the method that @events.evented wraps
load_method(w, n, resp) ==
    IF "Requests" \in DOMAIN resp.sections /\ data_key(w.nodes[n].cls) # "Requests"
    THEN attach_job(w, n, resp)
    ELSE absorb(w, n, resp)

\* QueryableModel.load
load(w, n, resp) ==
    evented_exit(load_method(publish(w, w.nodes[n].cls, NodeObj(n), "load", "STARTED"), n, resp),
                 w.nodes[n].cls, NodeObj(n), "load")

\* DependentModel.inflate
dep_model_inflate(w, n) == Ok([w EXCEPT !.nodes[n].is_inflated = TRUE], n)

\* self.inflate() called in a method of Model: the inflate of the model's
\* own class
model_inflate(w, n) ==
    IF Dependent(w.nodes[n].cls) THEN dep_model_inflate(w, n) ELSE inflate(w, n)

\* Model.refresh
refresh(w, n) == inflate([w EXCEPT !.nodes[n].is_inflated = FALSE], n)

\* the value of a field as __getattr__ returns it, "" for None
value(w, n, attr) ==
    Ok(w, IF attr \in DOMAIN w.nodes[n].data THEN w.nodes[n].data[attr] ELSE "")

\* getfield that re-fetches whenever the field is missing
getfield_refetching(w, n, attr) ==
    IF attr \in DOMAIN w.nodes[n].data THEN value(w, n, attr)
    ELSE Then(refresh(w, n), LAMBDA r : value(r.w, n, attr))

\* Model.__getattr__ for a name in self.fields
\* a field read that inflates the model whether the value is there or not
getfield_inflating(w, n, attr) ==
    Then(inflate(w, n), LAMBDA r : value(r.w, n, attr))

getfield(w, n, attr) ==
    IF attr \in DOMAIN w.nodes[n].data THEN value(w, n, attr)
    ELSE Then(inflate(w, n), LAMBDA r : value(r.w, n, attr))

\* Model.to_dict
to_dict(w, n) == Then(model_inflate(w, n), LAMBDA r : Ok(r.w, r.w.nodes[n].data))

\* ----------------------------------------------------- collection methods
\* QueryableModelCollection.load, the job a response announces: a Request
\* under self.parent.cluster.requests, referenced by self.request
coll_attach_job(w, c, resp) ==
    IF "Requests" \notin DOMAIN resp.sections THEN Ok(w, c)
    ELSE IF w.colls[c].parent = NoNode THEN Raise(w, "AttributeError")
    ELSE Then(getrel(w, cluster(w, w.colls[c].parent), "requests"), LAMBDA g :
            Ok([Allocate(g.w, NewModel("Request", g.val, resp.href, resp.sections["Requests"]))
                   EXCEPT !.colls[c].request = Len(g.w.nodes) + 1], c))

\* QueryableModelCollection.load; the loop over response['items'] builds and
\* loads one model per item exactly as __call__ does for a dict item
coll_load_method(w, c, resp) ==
    Then(coll_attach_job(w, c, resp), LAMBDA j :
        IF resp.items # <<>>
        THEN call_items([j.w EXCEPT !.colls[c].models = <<>>], c, resp.items[1], 1)
        ELSE j)

\* QueryableModelCollection.load as callers see it, inside @events.evented
coll_load(w, c, resp) ==
    evented_exit(coll_load_method(publish(w, collection_class(w.colls[c].model_class),
                                          CollObj(c), "load", "STARTED"), c, resp),
                 collection_class(w.colls[c].model_class), CollObj(c), "load")

\* QueryableModelCollection.inflate
coll_inflate(w, c) ==
    IF ~w.colls[c].is_inflated
    THEN Then(coll_url(w, c), LAMBDA u :
         Then(request(u.w, "GET", u.val), LAMBDA g :
         Then(coll_load(g.w, c, g.val), LAMBDA l :
            Ok([l.w EXCEPT !.colls[c].is_inflated = TRUE], c))))
    ELSE Ok([w EXCEPT !.colls[c].is_inflated = TRUE], c)

\* dep_inflate that forgets the members
dep_inflate_clearing(w, c) ==
    Ok([w EXCEPT !.colls[c].is_inflated = TRUE, !.colls[c].models = <<>>], c)

\* DependentModelCollection.inflate
dep_inflate(w, c) == Ok([w EXCEPT !.colls[c].is_inflated = TRUE], c)

\* self.inflate() called in a method of ModelCollection: the inflate of the
\* collection's own class
collection_inflate(w, c) ==
    IF Dependent(w.colls[c].model_class) THEN dep_inflate(w, c) ELSE coll_inflate(w, c)

\* ModelCollection.refresh
coll_refresh(w, c) == collection_inflate([w EXCEPT !.colls[c].is_inflated = FALSE], c)

\* for model in collection: __iter__ inflates the collection, and next()
\* hands out the members from _iter_marker on until the marker has reached
\* the end; the marker is never set back
iterate(w, c) ==
    Then(collection_inflate(w, c), LAMBDA r :
        Ok([r.w EXCEPT !.colls[c].iter_marker =
                          IF @ >= Len(r.w.colls[c].models) THEN @ ELSE Len(r.w.colls[c].models)],
           SubSeq(r.w.colls[c].models, r.w.colls[c].iter_marker + 1, Len(r.w.colls[c].models))))

\* ModelCollection.wait
collection_wait(w, c) ==
    evented_exit(collection_inflate(publish(w, collection_class(w.colls[c].model_class),
                                            CollObj(c), "wait", "STARTED"), c),
                 collection_class(w.colls[c].model_class), CollObj(c), "wait")

\* ModelCollection.to_dict: inflate, then to_dict of every member in order
RECURSIVE members_to_dict(_, _, _)
members_to_dict(w, ms, i) ==
    IF i > Len(ms) THEN Ok(w, ms)
    ELSE Then(to_dict(w, ms[i]), LAMBDA r : members_to_dict(r.w, ms, i + 1))

coll_to_dict(w, c) ==
    Then(collection_inflate(w, c), LAMBDA r : members_to_dict(r.w, r.w.colls[c].models, 1))

\* QueryableModel.update, the method that @events.evented wraps
update_method(w, n) ==
    Then(url(w, n), LAMBDA u :
    Then(request(u.w, "PUT", u.val), LAMBDA g :
    Then(load(g.w, n, g.val), LAMBDA l : Ok(l.w, n))))

\* QueryableModel.update
update(w, n) ==
    evented_exit(update_method(publish(w, w.nodes[n].cls, NodeObj(n), "update", "STARTED"), n),
                 w.nodes[n].cls, NodeObj(n), "update")

\* Model.identifier read from outside url, on any model: a model that lacks
\* its primary key is inflated first, and the lookup raises KeyError when
\* the key is still missing
identifier_property(w, n) ==
    IF GeneratedIdentifier(w.nodes[n].cls) \/ primary_key(w.nodes[n].cls) \in DOMAIN w.nodes[n].data
    THEN identifier(w, n)
    ELSE Then(model_inflate(w, n), LAMBDA r :
            IF primary_key(w.nodes[n].cls) \in DOMAIN r.w.nodes[n].data
            THEN Ok(r.w, r.w.nodes[n].data[primary_key(w.nodes[n].cls)])
            ELSE Raise(r.w, "KeyError"))

\* ModelCollection.remove, the list comprehension over the members ms from
\* position i on: x.identifier, then model.identifier, for every member x;
\* kept are the members with another identifier than model n
RECURSIVE remove_from(_, _, _, _, _)
remove_from(w, ms, i, n, kept) ==
    IF i > Len(ms) THEN Ok(w, kept)
    ELSE Then(identifier_property(w, ms[i]), LAMBDA x :
         Then(identifier_property(x.w, n), LAMBDA m :
            remove_from(m.w, ms, i + 1, n, IF x.val # m.val THEN Append(kept, ms[i]) ELSE kept)))

\* ModelCollection.remove: the membership is bound to the new list
remove(w, c, n) ==
    Then(remove_from(w, w.colls[c].models, 1, n, <<>>), LAMBDA k :
        Ok([k.w EXCEPT !.colls[c].models = k.val], c))

\* delete_method that leaves the model in its collection
delete_method_keeping(w, n) ==
    Then(url(w, n), LAMBDA u :
    Then(request(u.w, "DELETE", u.val), LAMBDA g :
    Then(load(g.w, n, g.val), LAMBDA l : Ok(l.w, w.nodes[n].parent))))

\* QueryableModel.delete, the method that @events.evented wraps
delete_method(w, n) ==
    Then(url(w, n), LAMBDA u :
    Then(request(u.w, "DELETE", u.val), LAMBDA g :
    Then(load(g.w, n, g.val), LAMBDA l :
        remove(l.w, w.nodes[n].parent, n))))

\* QueryableModel.delete
delete(w, n) ==
    evented_exit(delete_method(publish(w, w.nodes[n].cls, NodeObj(n), "delete", "STARTED"), n),
                 w.nodes[n].cls, NodeObj(n), "delete")

\* QueryableModel.create, the method that @events.evented wraps
create_method(w, n) ==
    Then(url(w, n), LAMBDA u :
    Then(request(u.w, "POST", u.val), LAMBDA g :
    Then(load(g.w, n, g.val), LAMBDA l : Ok(l.w, n))))

\* QueryableModel.create
create(w, n) ==
    evented_exit(create_method(publish(w, w.nodes[n].cls, NodeObj(n), "create", "STARTED"), n),
                 w.nodes[n].cls, NodeObj(n), "create")

\* QueryableModelCollection.create with the identifier as its one
\* argument: a model is built with address and primary key, created on the
\* server and then made a member
coll_create(w, c, id) ==
    Then(coll_url(w, c), LAMBDA u :
    Then(create(Allocate(u.w, NewModel(w.colls[c].model_class, c, u.val \o <<id>>,
                                       Dict1(primary_key(w.colls[c].model_class), id))),
                Len(u.w.nodes) + 1),
         LAMBDA r : Ok(Member(r.w, c, r.val), r.val)))

\* the loop of delete that goes on to the members after the one whose
\* delete raised, and raises when it is through
RECURSIVE delete_each_going_on(_, _, _)
delete_each_going_on(w, ms, i) ==
    IF i > Len(ms) THEN Ok(w, ms)
    ELSE LET r == delete(w, ms[i])
             rest == delete_each_going_on(r.w, ms, i + 1)
         IN IF r.exc = "none" THEN rest ELSE [rest EXCEPT !.exc = r.exc]

\* QueryableModelCollection.update and delete, the loop over the list ms
\* that self._models was bound to when the loop began
RECURSIVE update_each(_, _, _), delete_each(_, _, _), delete_each_live(_, _, _)
update_each(w, ms, i) ==
    IF i > Len(ms) THEN Ok(w, ms)
    ELSE Then(update(w, ms[i]), LAMBDA r : update_each(r.w, ms, i + 1))

delete_each(w, ms, i) ==
    IF i > Len(ms) THEN Ok(w, ms)
    ELSE Then(delete(w, ms[i]), LAMBDA r : delete_each(r.w, ms, i + 1))

\* the loop of delete over the membership as it is at every round
delete_each_live(w, c, i) ==
    IF i > Len(w.colls[c].models) THEN Ok(w, c)
    ELSE Then(delete(w, w.colls[c].models[i]), LAMBDA r : delete_each_live(r.w, c, i + 1))

\* QueryableModelCollection.update
coll_update(w, c) ==
    Then(coll_inflate(w, c), LAMBDA r :
    Then(update_each(r.w, r.w.colls[c].models, 1), LAMBDA u : Ok(u.w, c)))

\* coll_delete whose loop follows the membership while remove() changes it
coll_delete_live(w, c) ==
    Then(coll_inflate(w, c), LAMBDA r :
    Then(delete_each_live(r.w, c, 1), LAMBDA u : Ok(u.w, <<>>)))

\* QueryableModelCollection.delete
coll_delete(w, c) ==
    Then(coll_inflate(w, c), LAMBDA r :
    Then(delete_each(r.w, r.w.colls[c].models, 1), LAMBDA u : Ok(u.w, <<>>)))

\* ----------------------------------------------- dependent collections
\* DependentModelCollection.__call__ with a list, the loop: one new model
\* per item, the item its data
RECURSIVE dep_call_items(_, _, _, _)
dep_call_items(w, c, items, i) ==
    IF i > Len(items) THEN Ok(w, c)
    ELSE dep_call_items(Member(Allocate(w, NewModel(w.colls[c].model_class, c, NoHref, items[i])),
                               c, Len(w.nodes) + 1),
                        c, items, i + 1)

\* DependentModelCollection.__call__ with a list
dep_call_list(w, c, items) ==
    IF Len(items) > 0
    THEN dep_call_items([w EXCEPT !.colls[c].models = <<>>], c, items, 1)
    ELSE Ok(w, c)

\* DependentModelCollection.__call__ with several positional arguments:
\* items is assigned only under 'if len(args) == 1' and is still [] when
\* the membership is rebuilt from it
dep_call_args(w, c, args) == dep_call_list(w, c, <<>>)

\* QueryableModelCollection.__call__ with several positional arguments:
\* 'else: items = args'
coll_call_args(w, c, args) == coll_call_list(w, c, args)

\* DependentModelCollection.__call__ with one argument that is not a list,
\* the list comprehension: the members whose identifier is the argument
RECURSIVE matches(_, _, _, _, _)
matches(w, ms, i, id, found) ==
    IF i > Len(ms) THEN Ok(w, found)
    ELSE Then(identifier_property(w, ms[i]), LAMBDA x :
            matches(x.w, ms, i + 1, id, IF x.val = id THEN Append(found, ms[i]) ELSE found))

\* dep_call_one that settles for the first of several matches
dep_call_one_first(w, c, id) ==
    Then(matches(w, w.colls[c].models, 1, id, <<>>), LAMBDA m :
        IF Len(m.val) >= 1 THEN Ok(m.w, m.val[1]) ELSE Ok(m.w, NoNode))

\* DependentModelCollection.__call__ with one argument that is not a list:
\* the one match, None (NoNode) without a match, ValueError with several
dep_call_one(w, c, id) ==
    Then(matches(w, w.colls[c].models, 1, id, <<>>), LAMBDA m :
        IF Len(m.val) = 1 THEN Ok(m.w, m.val[1])
        ELSE IF Len(m.val) > 1 THEN Raise(m.w, "ValueError")
        ELSE Ok(m.w, NoNode))

\* ClusterServiceCollection.start: PUT on the collection's url; the response
\* is loaded and the job it announces returned
start(w, c) ==
    Then(getfield(w, w.colls[c].parent, "cluster_name"), LAMBDA f :
    Then(coll_url(f.w, c), LAMBDA u :
    Then(request(u.w, "PUT", u.val), LAMBDA g :
    Then(coll_load(g.w, c, g.val), LAMBDA l :
        Ok(l.w, l.w.colls[c].request)))))

\* --------------------------------------------------------------- polling
\* time.sleep
sleep(w, seconds) == [w EXCEPT !.now = @ + seconds]

\* Request.has_failed, Host.has_failed
has_failed(w, n) ==
    IF w.nodes[n].cls = "Host" THEN Ok(w, FALSE)
    ELSE Then(getfield(w, n, "request_status"), LAMBDA f :
            Ok(f.w, f.val \in {"FAILED", "ABORTED"}))

\* Request.is_finished, Host.is_finished; int(None) raises TypeError
is_finished(w, n) ==
    IF w.nodes[n].cls = "Host"
    THEN Then(getfield(w, n, "host_status"), LAMBDA h :
            IF h.val = "HEALTHY" THEN Ok(h.w, TRUE)
            ELSE Then(getfield(h.w, n, "maintenance_state"), LAMBDA m :
                    Ok(m.w, m.val = "ON" /\ h.val = "UNKNOWN")))
    ELSE Then(getfield(w, n, "progress_percent"), LAMBDA f :
            IF f.val = "" THEN Raise(f.w, "TypeError") ELSE Ok(f.w, f.val = "100"))

\* an argument of wait() that the caller did not pass: the parameter's
\* default, None
None == -1

\* the arguments of PollableMixin.wait, 'if not interval:' and 'if not
\* timeout:': a value that is not true, None or 0, is replaced by the
\* class's default
interval_of(cls, interval) ==
    IF interval \in {None, 0} THEN default_interval(cls) ELSE interval
timeout_of(cls, timeout) ==
    IF timeout \in {None, 0} THEN default_timeout(cls) ELSE timeout

\* expired that lets the loop run one second longer
expired_late(t, end) == t > end

\* expired that stops the loop one second early
expired_early(t, end) == t + 1 >= end

\* expired for a loop that has no deadline
expired_never(t, end) == FALSE

\* PollableMixin.wait, the test of the loop negated: the deadline has come
expired(t, end) == ~(t < end)

\* poll_cycle that does not look at has_failed
poll_cycle_unchecked(w, n, interval) ==
    Then(is_finished(w, n), LAMBDA d :
        IF d.val THEN Ok(d.w, "return")
        ELSE Then(refresh(sleep(publish(d.w, d.w.nodes[n].cls, NodeObj(n), "wait", "PROGRESS"),
                                    interval), n), LAMBDA r : Ok(r.w, "again")))

\* poll_cycle that looks at is_finished before has_failed
poll_cycle_finished_first(w, n, interval) ==
    Then(is_finished(w, n), LAMBDA d :
        IF d.val THEN Ok(d.w, "return")
        ELSE Then(has_failed(d.w, n), LAMBDA f :
            IF f.val THEN Raise(f.w, "Failed")
            ELSE Then(refresh(sleep(publish(f.w, f.w.nodes[n].cls, NodeObj(n), "wait", "PROGRESS"),
                                    interval), n), LAMBDA r : Ok(r.w, "again"))))

\* PollableMixin.wait, the body of the loop (one cycle that began before the
\* deadline): raise Failed, return, or sleep, refresh and go round again
poll_cycle(w, n, interval) ==
    Then(has_failed(w, n), LAMBDA f :
        IF f.val THEN Raise(f.w, "Failed")
        ELSE Then(is_finished(f.w, n), LAMBDA d :
            IF d.val THEN Ok(d.w, "return")
            ELSE Then(refresh(sleep(publish(d.w, d.w.nodes[n].cls, NodeObj(n), "wait", "PROGRESS"),
                                    interval), n), LAMBDA r : Ok(r.w, "again"))))

\* host_attempt that leaves the inflating mark of the failed attempt in place
host_attempt_marked(w, n, x) ==
    IF x = Attempts THEN inflate(w, n)
    ELSE Except(inflate(w, n), "NotFound", LAMBDA r : Ok(sleep(r.w, RetrySleep), n))

\* Host.wait, one round of the loop over the inflate attempts, x its number:
\* a not-found before the last attempt is absorbed, the mark is reset and
\* the loop sleeps; the loop goes on after an attempt that succeeded
host_attempt(w, n, x) ==
    IF x = Attempts THEN inflate(w, n)
    ELSE Except(inflate(w, n), "NotFound", LAMBDA r :
            Ok(sleep([r.w EXCEPT !.nodes[n].is_inflating = FALSE], RetrySleep), n))

\* a wait that fetches the model again whether it is inflated or not
wait_rest_refreshing(w, n) == refresh([w EXCEPT !.nodes[n].request = NoNode], n)

\* QueryableModel.wait, what follows the wait on the job: the reference is
\* dropped and the model inflated
wait_rest(w, n) == inflate([w EXCEPT !.nodes[n].request = NoNode], n)

\* QueryableModelCollection.wait, what follows the wait on the job
coll_wait_rest(w, c) == coll_inflate([w EXCEPT !.colls[c].request = NoNode], c)

\* ------------------------------------------------------------- the state
VARIABLES
    handlers, \* events.EVENT_HANDLERS: key -> the callbacks registered, in order
    evlog,    \* the publish calls and callbacks of the operation executed last
    nodes,    \* the model objects constructed so far, by object number
    colls,    \* the collections: Root and the relationship caches' members
    calls,    \* every call made on the gateway: <<verb, url>>, in order
    last,     \* the operation executed last, as a caller observes it
    now,      \* the clock: seconds since wait() was called last
    pw,       \* the wait() call in progress, or made last
    loop      \* the poll loop in progress, or run last

vars == <<handlers, evlog, nodes, colls, calls, last, now, pw, loop>>

\* the world an operation starts from, with the environment's answers
World(answers) ==
    [nodes |-> nodes, colls |-> colls, calls |-> calls, answers |-> answers, now |-> now,
     handlers |-> handlers, published |-> <<>>, fired |-> <<>>]

\* how the environment may answer one call
Answers == {"empty", "ok", "embedded", "Error"}

\* the results operation Op can have, over all answers of the environment
\* to its (at most k) calls; an operation that makes no call when every
\* call is answered makes none whatever the answers, and has one result
ResultsOver(Op(_), answers, k) ==
    LET quiet == Op(World(<<>>))
    IN IF quiet.w.calls = calls THEN {quiet} ELSE {Op(World(a)) : a \in [1..k -> answers]}

Results(Op(_), k) == ResultsOver(Op, Answers, k)

NodeIds == DOMAIN nodes

\* what a caller observes of an operation: op on model n (kind "node") or
\* collection c (kind "coll") with argument arg; before is the object as
\* the operation found it, exc the exception raised, ret the value
\* returned and ncalls the number of gateway calls made
Observed(op, kind, n, c, arg, before, r) ==
    [op |-> op, kind |-> kind, n |-> n, c |-> c, arg |-> arg, before |-> before,
     exc |-> r.exc, ret |-> r.val, ncalls |-> Len(r.w.calls) - Len(calls)]

\* the step an operation takes when its result is r
Done(r) ==
    /\ Len(r.w.nodes) <= MaxNodes
    /\ Len(r.w.calls) <= MaxCalls
    /\ nodes' = r.w.nodes
    /\ colls' = r.w.colls
    /\ calls' = r.w.calls
    /\ UNCHANGED <<now, pw, loop, handlers, evlog>>

OnNode(op, n, arg, r) ==
    Done(r) /\ last' = Observed(op, "node", n, Root, arg, nodes[n], r)
OnColl(op, c, arg, r) ==
    Done(r) /\ last' = Observed(op, "coll", NoNode, c, arg, colls[c], r)

\* no wait() was called, no poll loop was run
NoWait ==
    [pc |-> "idle", kind |-> "none", n |-> NoNode, c |-> Root, interval |-> 0,
     timeout |-> 0, x |-> 0, own |-> FALSE, waits |-> 0, before |-> <<>>,
     again |-> FALSE]
NoLoop ==
    [target |-> NoNode, start |-> 0, end |-> 0, every |-> 0, refreshes |-> 0,
     first_failed |-> -1, outcome |-> "none"]

\* nothing was published yet
NoEvents == [published |-> <<>>, fired |-> <<>>]

\* client = Ambari('localhost'); clusters = client.clusters
Init ==
    /\ handlers = NoHandlers /\ evlog = NoEvents
    /\ now = 0 /\ pw = NoWait /\ loop = NoLoop
    /\ nodes = <<>>
    /\ colls = [c \in {Root} |-> NewColl("Cluster", NoNode)]
    /\ calls = <<>>
    /\ last = [op |-> "init", kind |-> "none", n |-> NoNode, c |-> Root, arg |-> "",
               before |-> <<>>, exc |-> "none", ret |-> <<>>, ncalls |-> 0]

\* collection(identifier)
CallOne ==
    \E c \in DOMAIN colls :
        LET id == IF c = Root THEN "c1" ELSE "h1"
        IN OnColl("call_one", c, id, coll_call_one(World(<<>>), c, id))

\* model_class(parent, href=..., data=...) : a model built directly, with or
\* without an address and with or without its primary key
Construct ==
    \E href \in {NoHref, <<"base_url", "api", "v1", "clusters", "c1">>},
       data \in {EmptyDict, Dict1("cluster_name", "c1")} :
        OnColl("construct", Root, "",
               Ok(Allocate(World(<<>>), NewModel("Cluster", Root, href, data)), Len(nodes) + 1))

\* model.<field>
GetField ==
    \E n \in NodeIds :
        \E attr \in fields(nodes[n].cls) :
            \E r \in Results(LAMBDA w : getfield(w, n, attr), 1) :
                OnNode("getfield", n, attr, r)

\* model.<relationship>
GetRelationship ==
    \E n \in NodeIds :
        \E rel \in relationships(nodes[n].cls) \cap {"hosts"} :
            \E r \in Results(LAMBDA w : getrel(w, n, rel), 1) :
                OnNode("getrel", n, rel, r)

\* model.inflate()
Inflate ==
    \E n \in NodeIds :
        \E r \in Results(LAMBDA w : inflate(w, n), 1) : OnNode("inflate", n, "", r)

\* model.refresh()
Refresh ==
    \E n \in NodeIds :
        \E r \in Results(LAMBDA w : refresh(w, n), 1) : OnNode("refresh", n, "", r)

\* collection.inflate()
CollInflate ==
    \E c \in DOMAIN colls :
        \E r \in Results(LAMBDA w : coll_inflate(w, c), 1) : OnColl("inflate", c, "", r)

\* collection.refresh()
CollRefresh ==
    \E c \in DOMAIN colls :
        \E r \in Results(LAMBDA w : coll_refresh(w, c), 1) : OnColl("refresh", c, "", r)

\* collection.to_dict()
CollToDict ==
    \E c \in DOMAIN colls :
        \E r \in Results(LAMBDA w : coll_to_dict(w, c), MaxCalls) : OnColl("to_dict", c, "", r)

Next ==
    \/ CallOne
    \/ Construct
    \/ GetField
    \/ GetRelationship
    \/ Inflate
    \/ Refresh
    \/ CollInflate
    \/ CollRefresh
    \/ CollToDict

Spec == Init /\ [][Next]_vars

\* ------------------------------------------------- waiting on server jobs
\* the program before it changes anything on the server:
\*   cluster = client.clusters('c1'); host = cluster.hosts('h1');
\*   services = cluster.services
\* the cluster is object 1 (inflated by the first relationship access), the
\* host object 2
Started ==
    LET w0 == [nodes |-> <<>>, colls |-> [c \in {Root} |-> NewColl("Cluster", NoNode)],
               calls |-> <<>>, answers |-> <<"ok">>, now |-> 0,
               handlers |-> NoHandlers, published |-> <<>>, fired |-> <<>>]
        w1 == coll_call_one(w0, Root, "c1").w
        w2 == getrel(w1, 1, "hosts").w
        w3 == coll_call_one(w2, <<1, "hosts">>, "h1").w
    IN getrel(w3, 1, "services").w

Services == <<1, "services">>

InitWait ==
    /\ handlers = NoHandlers /\ evlog = NoEvents
    /\ nodes = Started.nodes
    /\ colls = Started.colls
    /\ calls = Started.calls
    /\ now = 0 /\ pw = NoWait /\ loop = NoLoop
    /\ last = [op |-> "init", kind |-> "none", n |-> NoNode, c |-> Root, arg |-> "",
               before |-> <<>>, exc |-> "none", ret |-> <<>>, ncalls |-> 0]

\* how the server answers a mutating call, a GET of a job or of a host in
\* the poll loop, and the GET of one of Host.wait's inflate attempts
MutationAnswers == {"job", "empty"}
PollAnswers == {"ok", "failed", "done", "both", "Error"}
AttemptAnswers == {"ok", "done", "NotFound", "Error"}

\* the values passed for interval and timeout, None for one left out
Intervals == {None, 0, 1}
Timeouts == {None, 0, MaxTime}

Mutations(cs) == Cardinality({i \in DOMAIN cs : cs[i][1] = "PUT"})

\* the job an entity refers to (self.request)
Link(kind, n, c) == IF kind = "node" THEN nodes[n].request ELSE colls[c].request

\* Request.has_failed on the data a model holds
FailedNow(m) ==
    "request_status" \in DOMAIN m.data /\ m.data["request_status"] \in {"FAILED", "ABORTED"}

\* Request.is_finished and Host.is_finished on the data a model holds
FinishedNow(m) ==
    IF m.cls = "Host"
    THEN /\ "host_status" \in DOMAIN m.data
         /\ \/ m.data["host_status"] = "HEALTHY"
            \/ /\ m.data["host_status"] = "UNKNOWN"
               /\ "maintenance_state" \in DOMAIN m.data /\ m.data["maintenance_state"] = "ON"
    ELSE "progress_percent" \in DOMAIN m.data /\ m.data["progress_percent"] = "100"

\* no wait() is in progress, and one is still to come: the behaviours
\* explored end with their last wait()
Idle == pw.pc = "idle" /\ pw.waits < MaxWaits

\* the wait() that ended last raised Failed or Timeout out of the wait on
\* the job attached to its entity
JobWaitRaised ==
    /\ pw.pc = "idle" /\ pw.waits > 0 /\ ~pw.own
    /\ loop.outcome \in {"Failed", "Timeout"}

\* the step of a mutating call with result r
Mutated(r) ==
    /\ Idle
    /\ Mutations(r.w.calls) <= MaxJobs
    /\ nodes' = r.w.nodes /\ colls' = r.w.colls /\ calls' = r.w.calls
    /\ UNCHANGED <<now, pw, loop, handlers, evlog>>

\* model.update(...)
UpdateModel ==
    \E n \in NodeIds :
        /\ nodes[n].cls # "Request"
        /\ \E r \in ResultsOver(LAMBDA w : update(w, n), MutationAnswers, 1) :
              Mutated(r) /\ last' = Observed("update", "node", n, Root, "", nodes[n], r)

\* cluster.services.start()
StartServices ==
    \E r \in ResultsOver(LAMBDA w : start(w, Services), MutationAnswers, 1) :
        Mutated(r) /\ last' = Observed("start", "coll", NoNode, Services, "", colls[Services], r)

\* job.request_status, read by the caller on the job a mutating call attached
ReadJob ==
    /\ Idle
    /\ \E n \in NodeIds :
          /\ nodes[n].cls = "Request"
          /\ \E r \in ResultsOver(LAMBDA w : getfield(w, n, "request_status"),
                                  {"ok", "Error"}, 1) :
                /\ nodes' = r.w.nodes /\ colls' = r.w.colls /\ calls' = r.w.calls
                /\ last' = Observed("getfield", "node", n, Root, "request_status", nodes[n], r)
    /\ UNCHANGED <<now, pw, loop, handlers, evlog>>

\* PollableMixin.wait up to the loop: the deadline of a poll of model n
NewLoop(n, interval, timeout, m) ==
    [target |-> n, start |-> 0, end |-> timeout_of(m.cls, timeout),
     every |-> interval_of(m.cls, interval), refreshes |-> 0,
     first_failed |-> IF FailedNow(m) THEN 0 ELSE -1, outcome |-> "running"]

\* entity.wait(interval=..., timeout=...) up to its first gateway call: with
\* a job attached it starts with the job's wait().  The caller starts its
\* stopwatch and clears its log of the gateway's calls as it calls wait(),
\* and notes (again) a wait() that directly follows one of the same entity
\* which the wait on its job ended with Failed or Timeout.
Begin(e, interval, timeout) ==
    LET job == Link(e[1], e[2], e[3])
    IN /\ pw' = [pc |-> IF job # NoNode THEN "job" ELSE "own",
                 kind |-> e[1], n |-> e[2], c |-> e[3],
                 interval |-> interval, timeout |-> timeout, x |-> 1, own |-> FALSE,
                 waits |-> pw.waits + 1,
                 again |-> /\ JobWaitRaised /\ last.op = "wait"
                           /\ pw.kind = e[1] /\ pw.n = e[2] /\ pw.c = e[3],
                 before |-> IF e[1] = "node" THEN nodes[e[2]] ELSE colls[e[3]]]
       /\ loop' = IF job # NoNode THEN NewLoop(job, interval, timeout, nodes[job])
                  ELSE NoLoop
       /\ last' = [op |-> "waiting", kind |-> e[1], n |-> e[2], c |-> e[3],
                   arg |-> <<interval, timeout>>, before |-> pw'.before,
                   exc |-> "none", ret |-> <<>>, ncalls |-> 0]
       /\ now' = 0 /\ calls' = <<>>
       /\ UNCHANGED <<nodes, colls, handlers, evlog>>

\* a wait() on a model that is no job, or on cluster.services
Wait ==
    /\ Idle
    /\ \E e \in ({"node"} \X {n \in NodeIds : nodes[n].cls # "Request"} \X {Root})
                \cup ({"coll"} \X {NoNode} \X {Services}),
          interval \in Intervals, timeout \in Timeouts :
          Begin(e, interval, timeout)

\* wait() ends: it raises exc or returns; own tells whether it got to the
\* entity's own inflate
Ended(exc, own) ==
    /\ pw' = [pw EXCEPT !.pc = "idle", !.own = own]
    /\ last' = [last EXCEPT !.op = "wait", !.exc = exc, !.ncalls = Len(calls')]

\* PollCycle that detaches the job from the entity when its wait raises
PollCycle_detaching ==
    /\ pw.pc \in {"job", "poll"}
    /\ UNCHANGED <<handlers, evlog>>
    /\ IF expired(now, loop.end)
       THEN /\ UNCHANGED <<nodes, colls, calls, now>>
            /\ loop' = [loop EXCEPT !.outcome = "Timeout"]
            /\ Ended("Timeout", pw.own)
       ELSE /\ now - loop.start <= MaxTime
            /\ \E r \in ResultsOver(LAMBDA w : poll_cycle(w, loop.target, loop.every),
                                    PollAnswers, 2),
                  lat \in 0..MaxLatency :
                  /\ r.w.now = now => lat = 0
                  /\ nodes' = IF r.exc # "none" /\ pw.pc = "job" /\ pw.kind = "node"
                              THEN [r.w.nodes EXCEPT ![pw.n].request = NoNode]
                              ELSE r.w.nodes
                  /\ colls' = r.w.colls /\ calls' = r.w.calls
                  /\ now' = r.w.now + lat
                  /\ loop' = [loop EXCEPT
                        !.outcome = IF r.exc # "none" THEN r.exc
                                    ELSE IF r.val = "return" THEN "returned" ELSE @,
                        !.refreshes = IF r.w.now = now THEN @ ELSE @ + 1]
                  /\ IF r.exc # "none" THEN Ended(r.exc, pw.own)
                     ELSE IF r.val = "return" /\ pw.pc = "poll" THEN Ended("none", pw.own)
                     ELSE /\ pw' = [pw EXCEPT !.pc = IF r.val = "return" THEN "own" ELSE @]
                          /\ UNCHANGED last

\* PollableMixin.wait, one round of the loop: past the deadline it raises
\* Timeout; otherwise the cycle raises, returns (to the wait() of the entity
\* the job is attached to, or to the caller) or goes round again.  lat is
\* the time the refresh took.
PollCycle ==
    /\ pw.pc \in {"job", "poll"}
    /\ UNCHANGED <<handlers, evlog>>
    /\ IF expired(now, loop.end)
       THEN /\ UNCHANGED <<nodes, colls, calls, now>>
            /\ loop' = [loop EXCEPT !.outcome = "Timeout"]
            /\ Ended("Timeout", pw.own)
       ELSE /\ now - loop.start <= MaxTime
            /\ \E r \in ResultsOver(LAMBDA w : poll_cycle(w, loop.target, loop.every),
                                    PollAnswers, 2),
                  lat \in 0..MaxLatency :
                  /\ r.w.now = now => lat = 0
                  /\ nodes' = r.w.nodes /\ colls' = r.w.colls /\ calls' = r.w.calls
                  /\ now' = r.w.now + lat
                  /\ loop' = [loop EXCEPT
                        !.outcome = IF r.exc # "none" THEN r.exc
                                    ELSE IF r.val = "return" THEN "returned" ELSE @,
                        !.refreshes = IF r.w.now = now THEN @ ELSE @ + 1,
                        !.first_failed = IF @ = -1 /\ FailedNow(r.w.nodes[loop.target])
                                         THEN IF r.w.now = now THEN loop.refreshes
                                              ELSE loop.refreshes + 1
                                         ELSE @]
                  /\ IF r.exc # "none" THEN Ended(r.exc, pw.own)
                     ELSE IF r.val = "return" /\ pw.pc = "poll" THEN Ended("none", pw.own)
                     ELSE /\ pw' = [pw EXCEPT !.pc = IF r.val = "return" THEN "own" ELSE @]
                          /\ UNCHANGED last

\* Host.wait, one round of the loop over the inflate attempts; after the
\* last one the host's own poll loop starts
HostAttempt ==
    /\ pw.pc = "own" /\ pw.kind = "node" /\ nodes[pw.n].cls = "Host"
    /\ UNCHANGED <<handlers, evlog>>
    /\ \E r \in ResultsOver(LAMBDA w : host_attempt(w, pw.n, pw.x), AttemptAnswers, 1) :
          /\ nodes' = r.w.nodes /\ colls' = r.w.colls /\ calls' = r.w.calls
          /\ now' = r.w.now
          /\ IF r.exc # "none" THEN Ended(r.exc, TRUE) /\ UNCHANGED loop
             ELSE IF pw.x < Attempts
             THEN pw' = [pw EXCEPT !.x = @ + 1, !.own = TRUE] /\ UNCHANGED <<last, loop>>
             ELSE /\ pw' = [pw EXCEPT !.pc = "poll", !.own = TRUE]
                  /\ loop' = [NewLoop(pw.n, pw.interval, pw.timeout, r.w.nodes[pw.n])
                                 EXCEPT !.start = r.w.now,
                                        !.end = r.w.now + timeout_of("Host", pw.timeout)]
                  /\ UNCHANGED last

\* QueryableModel.wait and QueryableModelCollection.wait after the wait on
\* the job, if there was one
WaitRest ==
    /\ pw.pc = "own" /\ (pw.kind = "node" => nodes[pw.n].cls # "Host")
    /\ \E r \in ResultsOver(LAMBDA w : IF pw.kind = "node" THEN wait_rest(w, pw.n)
                                       ELSE coll_wait_rest(w, pw.c),
                            PollAnswers, 1) :
          /\ nodes' = r.w.nodes /\ colls' = r.w.colls /\ calls' = r.w.calls
          /\ Ended(r.exc, TRUE)
          /\ UNCHANGED <<now, loop, handlers, evlog>>

NextWait ==
    \/ UpdateModel
    \/ StartServices
    \/ ReadJob
    \/ Wait
    \/ PollCycle
    \/ HostAttempt
    \/ WaitRest

SpecWait == InitWait /\ [][NextWait]_vars

\* ------------------------------------------- mutating calls and waits repeated
\* The cluster and its services are updated, started and waited on more than
\* once: a wait() after a wait() that failed, a second job attached before
\* the first was waited on.
MaxRepeats == 2

\* the jobs constructed so far, in order of construction
Jobs == {n \in NodeIds : nodes[n].cls = "Request"}

Repeatable(r) ==
    /\ pw.pc = "idle" /\ pw.waits < MaxRepeats
    /\ Len(r.w.nodes) <= Len(Started.nodes) + MaxRepeats
    /\ Mutations(r.w.calls) <= MaxRepeats
    /\ nodes' = r.w.nodes /\ colls' = r.w.colls /\ calls' = r.w.calls
    /\ UNCHANGED <<now, pw, loop, handlers, evlog>>

\* cluster.update(...), once more
UpdateAgain ==
    \E r \in ResultsOver(LAMBDA w : update(w, 1), MutationAnswers, 1) :
        Repeatable(r) /\ last' = Observed("update", "node", 1, Root, "", nodes[1], r)

\* cluster.services.start(), once more
StartAgain ==
    \E r \in ResultsOver(LAMBDA w : start(w, Services), MutationAnswers, 1) :
        Repeatable(r) /\ last' = Observed("start", "coll", NoNode, Services, "", colls[Services], r)

\* cluster.wait(timeout=...), cluster.services.wait(timeout=...), once more
WaitAgain ==
    /\ pw.pc = "idle" /\ pw.waits < MaxRepeats
    /\ \E e \in {<<"node", 1, Root>>, <<"coll", NoNode, Services>>}, timeout \in {None, 1} :
          Begin(e, None, timeout)

NextAgain ==
    \/ UpdateAgain
    \/ StartAgain
    \/ WaitAgain
    \/ PollCycle
    \/ WaitRest

SpecAgain == InitWait /\ [][NextAgain]_vars

\* ENABLED <<PollCycle>>_vars written out: a round of the poll loop can be
\* taken when the deadline has come or the loop is within the seconds
\* explored (the gateway always answers, and every round changes the state)
PollEnabled ==
    /\ pw.pc \in {"job", "poll"}
    /\ expired(now, loop.end) \/ now - loop.start <= MaxTime

\* a poll loop is never suspended for ever (the thread in wait() keeps
\* running): WF_vars(PollCycle), with its ENABLED written out
FairSpecWait == SpecWait /\ ([]<>(~PollEnabled) \/ []<><<PollCycle>>_vars)

\* ------------------------------------------------- watching the event bus
\* the classes, events and states a caller subscribes to; "None" is
\* event_state=None, the default
SubscribedClasses == {"ClusterHost", "QueryableModel", "Cluster"}
SubscribedEvents == {"update"}
SubscribedStates == {"None", "FINISHED"}

\* the number of callbacks registered under the keys ks
RECURSIVE Registered(_, _)
Registered(h, ks) ==
    IF ks = {} THEN 0
    ELSE LET k == CHOOSE x \in ks : TRUE IN Len(h[k]) + Registered(h, ks \ {k})

\* the same program as before it waits: cluster c1 (inflated) and host h1
InitEvents ==
    /\ handlers = NoHandlers /\ evlog = NoEvents
    /\ nodes = Started.nodes
    /\ colls = Started.colls
    /\ calls = Started.calls
    /\ now = 0 /\ pw = NoWait /\ loop = NoLoop
    /\ last = [op |-> "init", kind |-> "none", n |-> NoNode, c |-> Root, arg |-> "",
               before |-> <<>>, exc |-> "none", ret |-> <<>>, ncalls |-> 0]

\* events.subscribe(cls, event, callback, event_state); every call passes a
\* new callback, named by the number of the call
Subscribe ==
    /\ Registered(handlers, DOMAIN handlers) < MaxSubscriptions
    /\ \E cls \in SubscribedClasses, event \in SubscribedEvents, st \in SubscribedStates :
          /\ handlers' = subscribe(handlers, cls, event,
                                   Registered(handlers, DOMAIN handlers) + 1, st)
          /\ last' = [op |-> "subscribe", kind |-> "none", n |-> NoNode, c |-> Root,
                      arg |-> <<cls, event, st>>, before |-> <<>>, exc |-> "none",
                      ret |-> <<>>, ncalls |-> 0]
    /\ evlog' = NoEvents
    /\ UNCHANGED <<nodes, colls, calls, now, pw, loop>>

\* events.publish(model, event, event_state), called as PollableMixin.wait
\* calls it
Publish ==
    /\ \E n \in NodeIds, event \in {"update", "load"}, st \in {"STARTED", "FINISHED"} :
          LET w == publish(World(<<>>), nodes[n].cls, NodeObj(n), event, st)
          IN /\ evlog' = [published |-> w.published, fired |-> w.fired]
             /\ last' = [op |-> "publish", kind |-> "node", n |-> n, c |-> Root,
                         arg |-> <<event, st>>, before |-> nodes[n], exc |-> "none",
                         ret |-> <<>>, ncalls |-> 0]
    /\ UNCHANGED <<handlers, nodes, colls, calls, now, pw, loop>>

\* the step of an evented operation on model n with result r
Evented(op, n, r) ==
    /\ Len(r.w.calls) <= MaxEventCalls
    /\ nodes' = r.w.nodes /\ colls' = r.w.colls /\ calls' = r.w.calls
    /\ evlog' = [published |-> r.w.published, fired |-> r.w.fired]
    /\ last' = Observed(op, "node", n, Root, "", nodes[n], r)
    /\ UNCHANGED <<handlers, now, pw, loop>>

\* model.update(...), watched
WatchedUpdate ==
    \E n \in NodeIds :
        \E r \in ResultsOver(LAMBDA w : update(w, n), {"empty", "Error"}, 1) :
            Evented("update", n, r)

\* model.delete(), watched
WatchedDelete ==
    \E n \in NodeIds :
        \E r \in ResultsOver(LAMBDA w : delete(w, n), {"empty", "Error"}, 1) :
            Evented("delete", n, r)

\* model.refresh(), watched: the load inside it is evented
WatchedRefresh ==
    \E n \in NodeIds :
        \E r \in ResultsOver(LAMBDA w : refresh(w, n), {"ok", "Error"}, 1) :
            Evented("refresh", n, r)

NextEvents ==
    \/ Subscribe
    \/ Publish
    \/ WatchedUpdate
    \/ WatchedDelete
    \/ WatchedRefresh

SpecEvents == InitEvents /\ [][NextEvents]_vars

\* ------------------------------------------------------ using collections
\* the program before it uses its collections:
\*   cluster = client.clusters('c1'); hosts = cluster.hosts;
\*   requests = cluster.requests
\* the cluster is object 1, inflated by the relationship access
StartedColl ==
    LET w0 == [nodes |-> <<>>, colls |-> [c \in {Root} |-> NewColl("Cluster", NoNode)],
               calls |-> <<>>, answers |-> <<"ok">>, now |-> 0,
               handlers |-> NoHandlers, published |-> <<>>, fired |-> <<>>]
        w1 == coll_call_one(w0, Root, "c1").w
        w2 == getrel(w1, 1, "hosts").w
    IN getrel(w2, 1, "requests").w

Hosts == <<1, "hosts">>
Requests == <<1, "requests">>

\* the gateway's log is read from here on
InitColl ==
    /\ handlers = NoHandlers /\ evlog = NoEvents
    /\ nodes = StartedColl.nodes
    /\ colls = StartedColl.colls
    /\ calls = <<>>
    /\ now = 0 /\ pw = NoWait /\ loop = NoLoop
    /\ last = [op |-> "init", kind |-> "none", n |-> NoNode, c |-> Root, arg |-> "",
               before |-> [nodes |-> nodes, colls |-> colls], exc |-> "none",
               ret |-> <<>>, ncalls |-> 0, answers |-> <<>>]

\* the step of an operation whose result is r when the gateway answers its
\* calls with a; the caller observes the operation as before, together with
\* the heap as the operation found it and the answers it used up
Used(op, kind, n, c, arg, r, a) ==
    /\ Len(r.w.nodes) <= MaxObjects
    /\ Len(r.w.calls) <= MaxCollCalls
    /\ nodes' = r.w.nodes /\ colls' = r.w.colls /\ calls' = r.w.calls
    /\ last' = [op |-> op, kind |-> kind, n |-> n, c |-> c, arg |-> arg,
                before |-> [nodes |-> nodes, colls |-> colls],
                exc |-> r.exc, ret |-> r.val, ncalls |-> Len(r.w.calls) - Len(calls),
                answers |-> SubSeq(a, 1, Len(r.w.calls) - Len(calls))]
    /\ UNCHANGED <<handlers, evlog, now, pw, loop>>

\* the identifiers and the dictionaries a caller passes to a collection
IdLists == {<<>>, <<"h1">>, <<"h1", "h2">>}
GroupLists ==
    {<<Dict1("name", "g1")>>, <<Dict1("name", "g1"), Dict1("name", "g2")>>,
     <<Dict1("name", "g1"), Dict1("name", "g1")>>}

\* hosts(['h1', 'h2'])
CallList ==
    \E ids \in IdLists :
        Used("call_list", "coll", NoNode, Hosts, ids,
             coll_call_list(World(<<>>), Hosts, [i \in 1..Len(ids) |-> IdItem(ids[i])]), <<>>)

\* hosts('h1', 'h2')
CallArgs ==
    Used("call_args", "coll", NoNode, Hosts, <<"h1", "h2">>,
         coll_call_args(World(<<>>), Hosts, <<IdItem("h1"), IdItem("h2")>>), <<>>)

\* for model in hosts
Iterate ==
    \E a \in [1..1 -> {"ok", "Error"}] :
        Used("iterate", "coll", NoNode, Hosts, "", iterate(World(a), Hosts), a)

\* hosts.inflate(), hosts.refresh()
CollectionOp ==
    \E a \in [1..1 -> {"ok", "Error"}] :
        \/ Used("inflate", "coll", NoNode, Hosts, "", collection_inflate(World(a), Hosts), a)
        \/ Used("refresh", "coll", NoNode, Hosts, "", coll_refresh(World(a), Hosts), a)

\* hosts.update(...), hosts.delete()
CollectionMutation ==
    \E a \in [1..MaxCollCalls -> {"ok", "empty", "Error"}] :
        \/ Used("update", "coll", NoNode, Hosts, "", coll_update(World(a), Hosts), a)
        \/ Used("delete", "coll", NoNode, Hosts, "", coll_delete(World(a), Hosts), a)

\* model_class(parent): a model built without address and primary key
ConstructBare ==
    \E c \in {Root, Requests} :
        Used("construct", "coll", NoNode, c, "",
             Ok(Allocate(World(<<>>), NewModel(colls[c].model_class, c, NoHref, EmptyDict)),
                Len(nodes) + 1), <<>>)

\* client.clusters.create('c2', ...)
Create ==
    \E a \in [1..1 -> {"empty", "renamed", "Error"}] :
        Used("create", "coll", NoNode, Root, "c2", coll_create(World(a), Root, "c2"), a)

\* model.inflate(), .refresh(), .<field>, .<relationship>
NodeRead ==
    \E n \in NodeIds, a \in [1..1 -> {"ok", "renamed", "Error"}] :
        /\ \/ Used("inflate", "node", n, Root, "", inflate(World(a), n), a)
           \/ Used("refresh", "node", n, Root, "", refresh(World(a), n), a)
           \/ /\ nodes[n].href = NoHref /\ a[1] # "renamed"
              /\ \/ \E attr \in fields(nodes[n].cls) \ {primary_key(nodes[n].cls), "maintenance_state"} :
                       Used("getfield", "node", n, Root, attr, getfield(World(a), n, attr), a)
                 \/ \E rel \in relationships(nodes[n].cls) \cap {"hosts"} :
                       Used("getrel", "node", n, Root, rel, getrel(World(a), n, rel), a)

\* model.delete()
NodeDelete ==
    \E n \in NodeIds, a \in [1..1 -> {"empty", "Error"}] :
        Used("delete", "node", n, Root, "", delete(World(a), n), a)

NextColl ==
    \/ CallList
    \/ CallArgs
    \/ Iterate
    \/ CollectionOp
    \/ CollectionMutation
    \/ NodeDelete

SpecColl == InitColl /\ [][NextColl]_vars

\* model.update(...)
NodeUpdate ==
    \E n \in NodeIds, a \in [1..1 -> {"empty", "renamed", "Error"}] :
        Used("update", "node", n, Root, "", update(World(a), n), a)

\* model.update(...) answered with the announcement of a server-side job;
\* the second answer is for the GET that load() issues when it has to
\* inflate the cluster to reach cluster.requests
NodeUpdateJob ==
    \E n \in NodeIds, a2 \in {"ok", "Error"} :
        /\ nodes[n].cls # "Request"
        /\ Used("update", "node", n, Root, "job", update(World(<<"job", a2>>), n), <<"job", a2>>)

\* client.clusters('c2'), cluster.hosts('h1'): a shallow model
CallShallow ==
    \E c \in {Root, Hosts} :
        LET id == IF c = Root THEN "c2" ELSE "h1"
        IN Used("call_one", "coll", NoNode, c, id, coll_call_one(World(<<>>), c, id), <<>>)

\* model.wait() on a model that is not pollable, has no wait() of its own
\* and refers to no job: the 'if self.request' branch is skipped
NodeWait ==
    \E n \in NodeIds, a \in [1..1 -> {"ok", "Error"}] :
        /\ nodes[n].cls = "Cluster" /\ nodes[n].request = NoNode
        /\ Used("wait", "node", n, Root, "", wait_rest(World(a), n), a)

NextNode ==
    \/ ConstructBare
    \/ NodeWait
    \/ CallShallow
    \/ Create
    \/ NodeRead
    \/ NodeUpdate
    \/ NodeUpdateJob

SpecNode == InitColl /\ [][NextNode]_vars

\* ------------------------------------- relationships embedded in responses
\* client.clusters('c2')
CallCluster ==
    Used("call_one", "coll", NoNode, Root, "c2", coll_call_one(World(<<>>), Root, "c2"), <<>>)

\* cluster.inflate(), .refresh(), .hosts, with the gateway answering with
\* the cluster alone or with its hosts embedded
ReadEmbedded ==
    \E n \in NodeIds, a \in [1..1 -> {"ok", "embedded", "noHosts", "Error"}] :
        /\ nodes[n].cls = "Cluster"
        /\ \/ Used("inflate", "node", n, Root, "", inflate(World(a), n), a)
           \/ Used("refresh", "node", n, Root, "", refresh(World(a), n), a)
           \/ Used("getrel", "node", n, Root, "hosts", getrel(World(a), n, "hosts"), a)

\* for host in cluster.hosts; cluster.hosts.inflate(); cluster.hosts.to_dict()
Enumerate ==
    \E c \in DOMAIN colls, a \in [1..2 -> {"ok", "Error"}] :
        /\ c[2] = "hosts"
        /\ \/ Used("iterate", "coll", NoNode, c, "", iterate(World(a), c), a)
           \/ Used("inflate", "coll", NoNode, c, "", collection_inflate(World(a), c), a)
           \/ Used("to_dict", "coll", NoNode, c, "", coll_to_dict(World(a), c), a)

NextEmbed ==
    \/ CallCluster
    \/ ReadEmbedded
    \/ Enumerate

SpecEmbed == InitColl /\ [][NextEmbed]_vars

\* ------------------------------------------- using a dependent collection
\* the program before it uses the collection:
\*   groups = client.blueprints('b1').host_groups
\* the blueprint is object 1, inflated by the relationship access
StartedDep ==
    LET w0 == [nodes |-> <<>>, colls |-> [c \in {Blueprints} |-> NewColl("Blueprint", NoNode)],
               calls |-> <<>>, answers |-> <<"ok">>, now |-> 0,
               handlers |-> NoHandlers, published |-> <<>>, fired |-> <<>>]
        w1 == coll_call_one(w0, Blueprints, "b1").w
    IN getrel(w1, 1, "host_groups").w

Groups == <<1, "host_groups">>

InitDep ==
    /\ handlers = NoHandlers /\ evlog = NoEvents
    /\ nodes = StartedDep.nodes
    /\ colls = StartedDep.colls
    /\ calls = <<>>
    /\ now = 0 /\ pw = NoWait /\ loop = NoLoop
    /\ last = [op |-> "init", kind |-> "none", n |-> NoNode, c |-> Blueprints, arg |-> "",
               before |-> [nodes |-> nodes, colls |-> colls], exc |-> "none",
               ret |-> <<>>, ncalls |-> 0, answers |-> <<>>]

\* groups([{...}, {...}])
DepCallList ==
    \E items \in GroupLists :
        Used("call_list", "coll", NoNode, Groups, items,
             dep_call_list(World(<<>>), Groups, items), <<>>)

\* groups([]): an empty list replaces nothing
DepCallEmpty ==
    Used("call_list", "coll", NoNode, Groups, <<>>, dep_call_list(World(<<>>), Groups, <<>>), <<>>)

\* groups({...}, {...})
DepCallArgs ==
    \E items \in {l \in GroupLists : Len(l) > 1} :
        Used("call_args", "coll", NoNode, Groups, items,
             dep_call_args(World(<<>>), Groups, items), <<>>)

\* groups('g1')
DepCallOne ==
    \E id \in {"g1", "g2"} :
        Used("call_one", "coll", NoNode, Groups, id, dep_call_one(World(<<>>), Groups, id), <<>>)

\* for group in groups
DepIterate ==
    \E a \in [1..1 -> {"ok", "Error"}] :
        Used("iterate", "coll", NoNode, Groups, "", iterate(World(a), Groups), a)

\* groups.inflate(), .refresh(), .wait(), .to_dict()
DepOp ==
    \E a \in [1..1 -> {"ok", "Error"}] :
        \/ Used("inflate", "coll", NoNode, Groups, "", collection_inflate(World(a), Groups), a)
        \/ Used("refresh", "coll", NoNode, Groups, "", coll_refresh(World(a), Groups), a)
        \/ Used("wait", "coll", NoNode, Groups, "", collection_wait(World(a), Groups), a)
        \/ Used("to_dict", "coll", NoNode, Groups, "", coll_to_dict(World(a), Groups), a)

NextDep ==
    \/ DepCallList
    \/ DepCallArgs
    \/ DepCallEmpty
    \/ DepCallOne
    \/ DepIterate
    \/ DepOp

SpecDep == InitDep /\ [][NextDep]_vars

\* ------------------------------------------------ utils.generate_base_url
\* A string is the sequence of its characters.
HTTP == <<"h", "t", "t", "p">>
HTTPS == <<"h", "t", "t", "p", "s">>
FTP == <<"f", "t", "p">>
DigitChars == <<"0", "1", "2", "3", "4", "5", "6", "7", "8", "9">>

\* utils.DEFAULT_PORTS
HasDefaultPort(proto) == proto \in {HTTP, HTTPS}
DEFAULT_PORTS(proto) == IF proto = HTTP THEN 80 ELSE 443

\* the end of the longest run of characters outside stop that starts at
\* position i of s: a character class [^...]+ matched greedily
RECURSIVE run_end(_, _, _)
run_end(s, i, stop) ==
    IF i > Len(s) \/ s[i] \in stop THEN i ELSE run_end(s, i + 1, stop)

\* ([^/:]+)(:([^/]+))? matched at position p: groups 3 and 5, <<>> for the
\* None of an optional group that took no part in the match
host_port(s, p) ==
    LET e == run_end(s, p, {"/", ":"})
        pe == run_end(s, e + 1, {"/"})
    IN [matched |-> e > p,
        host |-> SubSeq(s, p, e - 1),
        port |-> IF e <= Len(s) /\ s[e] = ":" /\ pe > e + 1 THEN SubSeq(s, e + 1, pe - 1)
                 ELSE <<>>]

\* re.match(r'^(([^:]+)://)?([^/:]+)(:([^/]+))?', host): groups 2, 3 and 5.
\* [^:]+ has to end right before the first ':' for '://' to follow; when
\* the rest does not match after it, the optional first group is given up.
match(s) ==
    LET k == run_end(s, 1, {":"})
        scheme == /\ k > 1 /\ k + 2 <= Len(s)
                  /\ SubSeq(s, k, k + 2) = <<":", "/", "/">>
                  /\ host_port(s, k + 3).matched
        hp == IF scheme THEN host_port(s, k + 3) ELSE host_port(s, 1)
    IN [matched |-> hp.matched,
        proto |-> IF scheme THEN SubSeq(s, 1, k - 1) ELSE <<>>,
        host |-> hp.host, port |-> hp.port]

\* int(x) for a string of decimal digits, and str(n) for n >= 0
IsDigits(s) == s # <<>> /\ \A i \in 1..Len(s) : \E d \in 1..10 : DigitChars[d] = s[i]
RECURSIVE int(_)
int(s) ==
    IF s = <<>> THEN 0
    ELSE 10 * int(SubSeq(s, 1, Len(s) - 1))
            + (CHOOSE d \in 0..9 : DigitChars[d + 1] = s[Len(s)])
RECURSIVE str(_)
str(n) == IF n < 10 THEN <<DigitChars[n + 1]>> ELSE str(n \div 10) \o <<DigitChars[(n % 10) + 1]>>

\* an argument left out (None), an int, a string
NoArg == <<"none">>
IntArg(n) == <<"int", n>>
StrArg(s) == <<"str", s>>

\* utils.generate_base_url(host, protocol=None, port=None)
generate_base_url(host, protocol, port) ==
    LET g == match(host)
        derived_proto == IF g.proto # <<>> THEN g.proto
                         ELSE IF protocol # NoArg /\ protocol[2] # <<>> THEN protocol[2]
                         ELSE HTTP
        \* derived_port = port or DEFAULT_PORTS[derived_proto]; int(derived_port)
        derived_port == IF g.port # <<>> THEN StrArg(g.port)
                        ELSE IF port = NoArg \/ port = IntArg(0) \/ port = StrArg(<<>>)
                        THEN IntArg(DEFAULT_PORTS(derived_proto))
                        ELSE port
    IN IF ~g.matched THEN [exc |-> "AttributeError", val |-> <<>>]
       ELSE IF ~HasDefaultPort(derived_proto) THEN [exc |-> "ValueError", val |-> <<>>]
       ELSE IF derived_port[1] = "str" /\ ~IsDigits(derived_port[2])
       THEN [exc |-> "ValueError", val |-> <<>>]
       ELSE [exc |-> "none",
             val |-> derived_proto \o <<":", "/", "/">> \o g.host \o <<":">>
                        \o str(IF derived_port[1] = "int" THEN derived_port[2]
                               ELSE int(derived_port[2]))]

\* the host strings and arguments handed to generate_base_url: an optional
\* protocol, a name, an optional port and an optional path put together,
\* and the protocol and port arguments
Protocols == {HTTP, HTTPS, FTP}
HostNames == {<<"w", "w", "w", ".", "e", "x">>}
PortStrings == {<<"9", "0", "9", "0">>, <<"0", "8", "0">>, <<"f", "o", "o">>}
UrlPaths == {<<>>, <<"/">>, <<"/", "s", "o", "m", "e", "/", "t", "h", "i", "n", "g">>,
             <<"/", "a", ":", "/", "/", "b">>}
PortArgs == {NoArg, IntArg(9090), StrArg(<<"8", "0", "8", "1">>), StrArg(<<"f", "o", "o">>)}
ProtocolArgs == {NoArg} \cup {StrArg(p) : p \in Protocols}

\* the host string written from its parts
HostString(proto, name, port, pth) ==
    (IF proto = <<>> THEN <<>> ELSE proto \o <<":", "/", "/">>) \o name
        \o (IF port = <<>> THEN <<>> ELSE <<":">> \o port) \o pth

InitUrl ==
    /\ handlers = NoHandlers /\ evlog = NoEvents
    /\ nodes = <<>> /\ colls = [c \in {Root} |-> NewColl("Cluster", NoNode)]
    /\ calls = <<>> /\ now = 0 /\ pw = NoWait /\ loop = NoLoop
    /\ \E proto \in Protocols \cup {<<>>}, name \in HostNames, hport \in PortStrings \cup {<<>>},
          pth \in UrlPaths, protocol \in ProtocolArgs, port \in PortArgs :
           last = [op |-> "init", host |-> HostString(proto, name, hport, pth),
                   parts |-> [proto |-> proto, name |-> name, port |-> hport, path |-> pth],
                   protocol |-> protocol, port |-> port, exc |-> "none", ret |-> <<>>]

\* utils.generate_base_url(host, protocol=..., port=...), as Ambari.__init__
\* calls it
GenerateBaseUrl ==
    /\ last.op = "init"
    /\ LET r == generate_base_url(last.host, last.protocol, last.port)
       IN last' = [last EXCEPT !.op = "generate_base_url", !.exc = r.exc, !.ret = r.val]
    /\ UNCHANGED <<handlers, evlog, nodes, colls, calls, now, pw, loop>>

SpecUrl == InitUrl /\ [][GenerateBaseUrl]_vars

\* ------------------------------------- inflate() called by several threads
\* Threads that call inflate() on one model; a thread can be switched out
\* between any two reads and writes of the model's attributes, so the
\* statements of QueryableModel.inflate are steps of their own.
MaxThreads == 2
MaxRuns == 2
Threads == 1..MaxThreads

\* a guard that lets every caller through
inflating_guard_off(m) == FALSE

\* QueryableModel.inflate, 'if self._is_inflating:'
inflating_guard(m) == m.is_inflating

\* where a thread stands in inflate(): pc the statement it executes next,
\* exc what its invocation raised; saw is the marker as the thread read it,
\* overlap tells that another thread had passed its own test of the marker
\* and not returned at that time, late that another invocation
\* had started and not returned when this one started, gets the GETs the
\* invocation issued, runs the invocations the thread made
IdleThread ==
    [pc |-> "idle", exc |-> "none", saw |-> "none", overlap |-> FALSE, late |-> FALSE,
     gets |-> 0, runs |-> 0]

Running(t) == pw[t].pc \notin {"idle", "done"}

\* client.clusters('c2'): a shallow model, shared by the threads
StartedRace ==
    LET w0 == [nodes |-> <<>>, colls |-> [c \in {Root} |-> NewColl("Cluster", NoNode)],
               calls |-> <<>>, answers |-> <<>>, now |-> 0,
               handlers |-> NoHandlers, published |-> <<>>, fired |-> <<>>]
    IN coll_call_one(w0, Root, "c2").w
Shared == Len(StartedRace.nodes)

InitRace ==
    /\ handlers = NoHandlers /\ evlog = NoEvents
    /\ nodes = StartedRace.nodes /\ colls = StartedRace.colls
    /\ calls = <<>> /\ now = 0 /\ loop = NoLoop
    /\ pw = [t \in Threads |-> IdleThread]
    /\ last = [op |-> "init", thread |-> 0]

\* what every step of a thread leaves alone
Stepped(t, op) ==
    /\ last' = [op |-> op, thread |-> t]
    /\ UNCHANGED <<handlers, evlog, now, loop>>

\* a thread calls model.inflate()
Invoke(t) ==
    /\ ~Running(t) /\ pw[t].runs < MaxRuns
    /\ pw' = [pw EXCEPT ![t] = [IdleThread EXCEPT
                 !.pc = "test_inflated", !.runs = pw[t].runs + 1,
                 !.late = \E u \in Threads \ {t} : Running(u)]]
    /\ UNCHANGED <<nodes, colls, calls>>
    /\ Stepped(t, "invoke")

\* if not self._is_inflated:
TestInflated(t) ==
    /\ pw[t].pc = "test_inflated"
    /\ pw' = [pw EXCEPT ![t].pc = IF nodes[Shared].is_inflated THEN "done" ELSE "test_inflating"]
    /\ UNCHANGED <<nodes, colls, calls>>
    /\ Stepped(t, "test_inflated")

\* if self._is_inflating: raise exceptions.ClientError(msg)
TestInflating(t) ==
    /\ pw[t].pc = "test_inflating"
    /\ pw' = [pw EXCEPT
                 ![t].saw = IF nodes[Shared].is_inflating THEN "set" ELSE "clear",
                 ![t].overlap = \E u \in Threads \ {t} : Running(u) /\ pw[u].saw = "clear",
                 ![t].pc = IF inflating_guard(nodes[Shared]) THEN "done" ELSE "mark",
                 ![t].exc = IF inflating_guard(nodes[Shared]) THEN "ClientError" ELSE "none"]
    /\ UNCHANGED <<nodes, colls, calls>>
    /\ Stepped(t, "test_inflating")

\* self._is_inflating = True
Mark(t) ==
    /\ pw[t].pc = "mark"
    /\ nodes' = [nodes EXCEPT ![Shared].is_inflating = TRUE]
    /\ pw' = [pw EXCEPT ![t].pc = "get"]
    /\ UNCHANGED <<colls, calls>>
    /\ Stepped(t, "mark")

\* self.client.get(self.url), the call sent
Get(t) ==
    /\ pw[t].pc = "get"
    /\ LET u == url(World(<<>>), Shared)
       IN IF u.exc # "none"
          THEN pw' = [pw EXCEPT ![t].pc = "done", ![t].exc = u.exc] /\ UNCHANGED calls
          ELSE /\ calls' = Append(calls, <<"GET", u.val>>)
               /\ pw' = [pw EXCEPT ![t].pc = "await", ![t].gets = @ + 1]
    /\ UNCHANGED <<nodes, colls>>
    /\ Stepped(t, "get")

\* the gateway's answer: the call raises, or self.load(response) runs
Receive(t) ==
    /\ pw[t].pc = "await"
    /\ \E a \in {"ok", "Error"} :
          IF a = "Error"
          THEN pw' = [pw EXCEPT ![t].pc = "done", ![t].exc = a] /\ UNCHANGED <<nodes, colls>>
          ELSE LET l == load(World(<<>>), Shared, Answer(a, url(World(<<>>), Shared).val))
               IN /\ nodes' = l.w.nodes /\ colls' = l.w.colls
                  /\ pw' = [pw EXCEPT ![t].pc = IF l.exc = "none" THEN "set_inflated" ELSE "done",
                                      ![t].exc = l.exc]
    /\ UNCHANGED calls
    /\ Stepped(t, "receive")

\* self._is_inflated = True
SetInflated(t) ==
    /\ pw[t].pc = "set_inflated"
    /\ nodes' = [nodes EXCEPT ![Shared].is_inflated = TRUE]
    /\ pw' = [pw EXCEPT ![t].pc = "clear"]
    /\ UNCHANGED <<colls, calls>>
    /\ Stepped(t, "set_inflated")

\* self._is_inflating = False; return self
Clear(t) ==
    /\ pw[t].pc = "clear"
    /\ nodes' = [nodes EXCEPT ![Shared].is_inflating = FALSE]
    /\ pw' = [pw EXCEPT ![t].pc = "done"]
    /\ UNCHANGED <<colls, calls>>
    /\ Stepped(t, "clear")

NextRace ==
    \E t \in Threads :
        \/ Invoke(t)
        \/ TestInflated(t)
        \/ TestInflating(t)
        \/ Mark(t)
        \/ Get(t)
        \/ Receive(t)
        \/ SetInflated(t)
        \/ Clear(t)

SpecRace == InitRace /\ [][NextRace]_vars

\* ------------------------------------------------------------ properties
\* the gateway calls of the operation executed last
LastCalls == SubSeq(calls, Len(calls) - last.ncalls + 1, Len(calls))

\* a model with a direct address or a primary-key value to derive one from
HasAddress(m) == m.href # NoHref \/ primary_key(m.cls) \in DOMAIN m.data
Address(n) == url(World(<<>>), n).val
CollAddress(c) == coll_url(World(<<>>), c).val

\* the operation executed last was a read of a declared field that the
\* attribute bag of an addressable model did not hold
AbsentFieldRead ==
    /\ last.op = "getfield" /\ HasAddress(last.before)
    /\ last.arg \notin DOMAIN last.before.data

\* C1 (as stated): every read of a declared field that is absent from the
\* attribute bag of an addressable model issues exactly one gateway call,
\* a GET of the model's address.
C1_AbsentFieldReadIssuesOneGet ==
    AbsentFieldRead => LastCalls = << <<"GET", Address(last.n)>> >>

\* C1 (amended): a read of a declared field that is absent from the
\* attribute bag of an addressable model issues exactly one gateway call, a
\* GET of the model's address, when the model is neither inflated nor marked
\* as inflating, and no gateway call otherwise.
C1_AbsentFieldReadInflatesOnce ==
    AbsentFieldRead =>
        IF ~last.before.is_inflated /\ ~last.before.is_inflating
        THEN LastCalls = << <<"GET", Address(last.n)>> >>
        ELSE LastCalls = <<>>

\* C1 witness: a field read that found the field missing has just fetched
\* the model, and the field is still missing afterwards
C1_Witness ==
    /\ AbsentFieldRead /\ last.ncalls = 1 /\ last.exc = "none"
    /\ last.arg \notin DOMAIN nodes[last.n].data

Shallow(m) ==
    /\ m.href # NoHref
    /\ DOMAIN m.data = {primary_key(m.cls)}
    /\ ~m.is_inflated /\ ~m.is_inflating

\* C3 (as stated): a relationship access on a shallow model issues no
\* gateway call, and when the child collection it returned is then
\* inflated by to_dict() the gateway has been called exactly once in all.
C3_RelationshipOnShallowIssuesNoCall ==
    [][/\ (last'.op = "getrel" /\ Shallow(last'.before)) => last'.ncalls = 0
       /\ (/\ last.op = "getrel" /\ last.exc = "none" /\ Len(calls) = last.ncalls
           /\ last'.op = "to_dict" /\ last'.c = last.ret)
          => Len(calls') = 1]_vars

\* C4 (as stated): an inflate() that follows an inflate() which returned,
\* on the same model or collection, issues no gateway call, so that the two
\* issue at most one together; refresh() on an addressable model or a
\* collection issues exactly one gateway call whatever state it finds, and
\* the field or relationship access that follows it issues none.
C4_InflateIdempotentRefreshRefetchesOnce ==
    [][/\ (/\ last.op = "inflate" /\ last.exc = "none" /\ last'.op = "inflate"
           /\ last.kind = last'.kind /\ last.n = last'.n /\ last.c = last'.c)
          => last.ncalls + last'.ncalls <= 1
       /\ (last'.op = "refresh" /\ (last'.kind = "node" => HasAddress(last'.before)))
          => last'.ncalls = 1
       /\ (/\ last.op = "refresh" /\ last.kind = "node"
           /\ last'.op \in {"getfield", "getrel"} /\ last'.n = last.n)
          => last'.ncalls = 0]_vars

\* C5: calling a collection with one identifier issues no gateway call,
\* returns a new shallow model and leaves the collection's membership and
\* materialized flag as they were; inflate() and to_dict() on a collection
\* that is not materialized issue exactly one GET of the collection's
\* address, before any other call.
C5_CallOneIsLocalInflateIsOneGet ==
    /\ last.op = "call_one"
       => /\ last.ncalls = 0
          /\ colls[last.c] = last.before
          /\ last.exc = "none" => /\ last.ret = Len(nodes)
                                  /\ Shallow(nodes[last.ret])
                                  /\ \A c \in DOMAIN colls :
                                        \A i \in 1..Len(colls[c].models) :
                                            colls[c].models[i] # last.ret
    /\ (last.kind = "coll" /\ last.op \in {"inflate", "to_dict"} /\ ~last.before.is_inflated)
       => /\ last.ncalls >= 1
          /\ LastCalls[1] = <<"GET", CollAddress(last.c)>>
          /\ \A i \in 2..last.ncalls : LastCalls[i] # <<"GET", CollAddress(last.c)>>

\* C5 witness: to_dict() has fetched a collection and then the member it
\* loaded, while the model made earlier by collection(identifier) is still
\* shallow and outside the membership
C5_Witness ==
    /\ last.op = "to_dict" /\ last.ncalls = 2 /\ last.exc = "none"
    /\ ~last.before.is_inflated
    /\ colls[last.c].models = <<2>>
    /\ Len(nodes) = 2 /\ Shallow(nodes[1])

\* ----------------------------------------------------- properties of wait
\* a wait() call was made on an entity that held a reference to a job
WaitedWithJob == pw.kind # "none" /\ pw.before.request # NoNode

\* C6 (as stated): whenever the wait() of an entity that held a reference to
\* a job has got to the entity's own inflate or completion check, the job
\* has completed and the entity's reference to it is cleared.
C6_OwnCheckFollowsJobAndClearedLink ==
    (WaitedWithJob /\ pw.own) =>
        /\ FinishedNow(nodes[pw.before.request])
        /\ Link(pw.kind, pw.n, pw.c) = NoNode

\* C7 (as stated): after wait() has returned on an entity, node or
\* collection, Host included, the entity's reference to a job is cleared.
C7_ReturnedWaitClearedLink ==
    (last.op = "wait" /\ last.exc = "none") => Link(last.kind, last.n, last.c) = NoNode

\* a poll loop has ended
LoopEnded == loop.outcome \notin {"none", "running"}

\* C8 (as stated): a poll loop on an entity whose failure predicate became
\* true after N refreshes ends with Failed after exactly N refreshes, never
\* with Timeout.
C8_FailedAfterNRefreshesNeverTimeout ==
    (LoopEnded /\ loop.first_failed # -1) =>
        loop.outcome = "Failed" /\ loop.refreshes = loop.first_failed

\* C8 (amended): a poll loop on an entity whose failure predicate became
\* true after N refreshes ends after exactly N refreshes: with Failed when
\* the N-th refresh returned before the deadline, with Timeout when the
\* deadline had come by then.
C8_FailedUnlessDeadlineCame ==
    (LoopEnded /\ loop.first_failed # -1) =>
        /\ loop.refreshes = loop.first_failed
        /\ loop.outcome = IF now < loop.end THEN "Failed" ELSE "Timeout"

\* C8 witness: a loop has ended with Failed after two refreshes
C8_Witness ==
    loop.outcome = "Failed" /\ loop.first_failed = 2 /\ loop.refreshes = 2

\* the errors a refresh (or the inflate behind a predicate) raises: the
\* gateway's, and ClientError on a model that a failed fetch left marked as
\* inflating
RefreshErrors == {"Error", "ClientError"}

\* neither predicate of the polled entity has become true, and no refresh
\* has raised
NeverTrue ==
    /\ loop.first_failed = -1 /\ ~FinishedNow(nodes[loop.target])
    /\ loop.outcome \notin RefreshErrors

FourOutcomes ==
    LoopEnded =>
        /\ loop.outcome \in {"returned", "Failed", "Timeout"} \cup RefreshErrors
        /\ loop.outcome = "Timeout" => now >= loop.end
        /\ loop.outcome = "Error" => Len(calls) > 0
        /\ loop.outcome = "ClientError" => nodes[loop.target].is_inflating

Chain == mro(nodes[last.n].cls)
RegisteredAt(event, st) ==
    {i \in 1..Len(Chain) : event_key(Chain[i], event, st) \in DOMAIN handlers}
First(S) == CHOOSE i \in S : \A j \in S : i <= j

\* C11 (as stated): publish() fires the exact (type, event, phase)
\* registration of the most specific type in the publisher's ancestor chain
\* that has one, whatever (type, event, ANY) registrations there are; the
\* ANY registration of the most specific ancestor is fired only when no
\* type in the chain has an exact registration for that phase.
C11_ExactBeatsAnyFallback ==
    last.op = "publish" =>
        LET exact == RegisteredAt(last.arg[1], last.arg[2])
            any == RegisteredAt(last.arg[1], "ANY")
        IN evlog.fired =
              IF exact # {}
              THEN handlers[event_key(Chain[First(exact)], last.arg[1], last.arg[2])]
              ELSE IF any # {}
              THEN handlers[event_key(Chain[First(any)], last.arg[1], "ANY")]
              ELSE <<>>

\* C12: when an instance publishes (x, FINISHED), a registration on
\* (its own type, x, FINISHED) is the only one fired; and a registration on
\* (BaseType, x, FINISHED), BaseType an ancestor, is the one fired as long as
\* no type below BaseType in the instance's chain has a registration for x.
\* So a (SubType, x, FINISHED) registration takes over for SubType instances
\* and leaves instances of other subtypes to the BaseType registration.
C12_SubtypeRegistrationTakesPrecedence ==
    (last.op = "publish" /\ last.arg[2] = "FINISHED") =>
        /\ 1 \in RegisteredAt(last.arg[1], "FINISHED")
              => evlog.fired = handlers[event_key(Chain[1], last.arg[1], "FINISHED")]
        /\ \A i \in RegisteredAt(last.arg[1], "FINISHED") :
              (\A j \in 1..(i - 1) : j \notin RegisteredAt(last.arg[1], "FINISHED")
                                          \cup RegisteredAt(last.arg[1], "ANY"))
              => evlog.fired = handlers[event_key(Chain[i], last.arg[1], "FINISHED")]

\* C12 witness: with (QueryableModel, update, FINISHED) and then
\* (ClusterHost, update, FINISHED) registered, the cluster has published
\* (update, FINISHED) and the QueryableModel registration has fired
C12_Witness ==
    /\ last.op = "publish" /\ last.arg = <<"update", "FINISHED">>
    /\ nodes[last.n].cls = "Cluster"
    /\ DOMAIN handlers = {event_key("QueryableModel", "update", "FINISHED"),
                          event_key("ClusterHost", "update", "FINISHED")}
    /\ handlers[event_key("ClusterHost", "update", "FINISHED")] = <<2>>
    /\ evlog.fired = <<1>>

\* the publish calls of the operation executed last
Published == evlog.published

\* C13: an evented operation publishes STARTED before it makes any gateway
\* call; when it raises it publishes FAILED and then FINISHED (and the error
\* goes on to the caller), when it returns it publishes FINISHED and no
\* FAILED; FINISHED is the last event of the operation, published after
\* all its gateway calls.  The same holds of every evented method called
\* inside it: each STARTED is followed by a FINISHED of the same object and
\* method, and each FAILED immediately by that FINISHED.
C13_StartedFailedFinished ==
    /\ last.op \in {"update", "delete"} =>
          /\ Len(Published) >= 2
          /\ Published[1] = <<NodeObj(last.n), last.op, "STARTED", Len(calls) - last.ncalls>>
          /\ Published[Len(Published)] = <<NodeObj(last.n), last.op, "FINISHED", Len(calls)>>
          /\ last.exc # "none" =>
                Published[Len(Published) - 1] = <<NodeObj(last.n), last.op, "FAILED", Len(calls)>>
          /\ last.exc = "none" =>
                \A i \in 1..Len(Published) :
                    ~(/\ Published[i][1] = NodeObj(last.n) /\ Published[i][2] = last.op
                      /\ Published[i][3] = "FAILED")
    /\ last.op \in {"update", "delete", "refresh"} =>
        \A i \in 1..Len(Published) :
          /\ Published[i][3] = "STARTED" =>
                \E j \in (i + 1)..Len(Published) :
                    /\ Published[j][1] = Published[i][1] /\ Published[j][2] = Published[i][2]
                    /\ Published[j][3] = "FINISHED"
          /\ Published[i][3] = "FAILED" =>
                /\ i < Len(Published)
                /\ Published[i + 1] = [Published[i] EXCEPT ![3] = "FINISHED"]

\* C13 witness: an update whose PUT the gateway refused has published
\* STARTED, FAILED and FINISHED, and the error has reached the caller
C13_Witness ==
    /\ last.op = "update" /\ last.exc = "Error" /\ last.ncalls = 1
    /\ Len(Published) = 3
    /\ Published[2][3] = "FAILED" /\ Published[3][3] = "FINISHED"

\* the bodies the gateway returned to the operation executed last
LastResponses == [i \in 1..last.ncalls |-> Answer(last.answers[i], LastCalls[i][2])]

\* the primary-key values those bodies report for a model of class cls
ReportedIds(cls) ==
    {LastResponses[i].sections[data_key(cls)][primary_key(cls)] :
        i \in {j \in 1..last.ncalls :
                 /\ data_key(cls) \in DOMAIN LastResponses[j].sections
                 /\ primary_key(cls) \in DOMAIN LastResponses[j].sections[data_key(cls)]}}

\* a model whose identifier is derivable, and that identifier
Derivable(m) == primary_key(m.cls) \in DOMAIN m.data
IdentifierOf(m) == m.data[primary_key(m.cls)]

\* C14 (as stated): once the primary-key value of a model is in its
\* attribute bag, no construct, create, inflate, refresh, field or
\* relationship access or update changes the model's identifier.
C14_IdentifierNeverChanges ==
    \A n \in DOMAIN last.before.nodes :
        Derivable(last.before.nodes[n]) =>
            /\ Derivable(nodes[n])
            /\ IdentifierOf(nodes[n]) = IdentifierOf(last.before.nodes[n])

\* C14 (amended): a derivable identifier stays derivable; it is unchanged by
\* every operation whose responses report the model's own primary-key value
\* or none, and it changes only on the model operated on, to a value that a
\* response of that operation reported for it.
C14_IdentifierFollowsResponses ==
    \A n \in DOMAIN last.before.nodes :
        LET old == last.before.nodes[n]
        IN Derivable(old) =>
              /\ Derivable(nodes[n])
              /\ (n # last.n \/ ReportedIds(old.cls) \subseteq {IdentifierOf(old)})
                    => IdentifierOf(nodes[n]) = IdentifierOf(old)
              /\ IdentifierOf(nodes[n]) # IdentifierOf(old)
                    => n = last.n /\ IdentifierOf(nodes[n]) \in ReportedIds(old.cls)

\* a refresh whose response reported the model under its own identifier and
\* added fields to the attribute bag
C14_Witness ==
    /\ last.op = "refresh" /\ last.exc = "none" /\ last.ncalls = 1
    /\ Derivable(last.before.nodes[last.n])
    /\ ReportedIds(nodes[last.n].cls) = {IdentifierOf(last.before.nodes[last.n])}
    /\ DOMAIN last.before.nodes[last.n].data # DOMAIN nodes[last.n].data
    /\ IdentifierOf(nodes[last.n]) = IdentifierOf(last.before.nodes[last.n])

\* a model with neither a direct address nor its primary-key value
Bare(m) == m.href = NoHref /\ ~Derivable(m)

\* C15: inflate(), and a field or relationship access that needs it, on a
\* model that has neither a direct address nor a primary-key value fails
\* with ClientError and issues no gateway call.
C15_BareInflateFailsFast ==
    (/\ last.op \in {"inflate", "getfield", "getrel"}
     /\ Bare(last.before.nodes[last.n]))
        => last.exc = "ClientError" /\ last.ncalls = 0

\* C16: collection([id, ...]) with a non-empty list of identifiers issues no
\* gateway call and replaces the membership by one new shallow model per
\* identifier, in input order, with that identifier and the address
\* collection address/identifier; the collection is then inflated, and
\* iterating an inflated collection issues no gateway call.
C16_CallWithIdentifiers ==
    /\ (last.op = "call_list" /\ last.c = Hosts /\ Len(last.arg) > 0) =>
          /\ last.exc = "none" /\ last.ncalls = 0
          /\ colls[Hosts].is_inflated
          /\ Len(colls[Hosts].models) = Len(last.arg)
          /\ \A i \in 1..Len(last.arg) :
                LET n == colls[Hosts].models[i]
                IN /\ n \notin DOMAIN last.before.nodes
                   /\ \A j \in 1..Len(last.arg) : colls[Hosts].models[j] = n => j = i
                   /\ Shallow(nodes[n])
                   /\ IdentifierOf(nodes[n]) = last.arg[i]
                   /\ nodes[n].href = CollAddress(Hosts) \o <<last.arg[i]>>
    /\ (last.op = "iterate" /\ last.c = Hosts /\ last.before.colls[Hosts].is_inflated) =>
          /\ last.exc = "none" /\ last.ncalls = 0
          /\ colls[Hosts].models = last.before.colls[Hosts].models

\* hosts(['h1', 'h2']) followed by an iteration that yields the two shallow
\* models without any gateway call
C16_Witness ==
    /\ last.op = "iterate" /\ last.c = Hosts /\ calls = <<>>
    /\ Len(last.ret) = 2
    /\ last.ret = colls[Hosts].models
    /\ IdentifierOf(nodes[last.ret[1]]) = "h1" /\ IdentifierOf(nodes[last.ret[2]]) = "h2"
    /\ Shallow(nodes[last.ret[1]]) /\ Shallow(nodes[last.ret[2]])

\* C17: no operation on a dependent collection (call, inflate, refresh,
\* wait, iteration, to_dict) issues a gateway call; its membership changes
\* only when it is called with a non-empty list, and inflate and refresh
\* leave the membership as it was.
C17_DependentCollectionNeverFetches ==
    /\ calls = <<>> /\ last.ncalls = 0
    /\ colls[Groups].models # last.before.colls[Groups].models
          => last.op = "call_list" /\ last.arg # <<>>
    /\ last.op \in {"inflate", "refresh"}
          => /\ last.exc = "none"
             /\ colls[Groups].models = last.before.colls[Groups].models
             /\ \A i \in 1..Len(colls[Groups].models) :
                   nodes[colls[Groups].models[i]].data
                      = last.before.nodes[colls[Groups].models[i]].data

\* refresh() of a dependent collection that holds two members
C17_Witness ==
    /\ last.op = "refresh" /\ last.c = Groups /\ last.exc = "none"
    /\ Len(last.before.colls[Groups].models) = 2
    /\ colls[Groups].models = last.before.colls[Groups].models
    /\ colls[Groups].is_inflated

\* the positions of the members that the collection held before the last
\* operation and whose identifier is id
FoundBefore(id) ==
    {i \in 1..Len(last.before.colls[Groups].models) :
        IdentifierOf(last.before.nodes[last.before.colls[Groups].models[i]]) = id}

\* C18: calling a dependent collection with one scalar issues no gateway
\* call and leaves the membership unchanged; it returns None when no member
\* has that identifier, the member when exactly one has it, and raises
\* ValueError when more than one has it.
C18_ScalarCallSearchesMembership ==
    (last.op = "call_one" /\ last.c = Groups) =>
        /\ last.ncalls = 0
        /\ colls[Groups].models = last.before.colls[Groups].models
        /\ Cardinality(FoundBefore(last.arg)) = 0 => last.exc = "none" /\ last.ret = NoNode
        /\ Cardinality(FoundBefore(last.arg)) = 1 =>
              /\ last.exc = "none"
              /\ \E i \in FoundBefore(last.arg) : last.ret = colls[Groups].models[i]
        /\ Cardinality(FoundBefore(last.arg)) > 1 => last.exc = "ValueError"

\* groups('g1') on a collection with two members named g1, and groups('g2')
\* on a collection whose one member named g2 is returned
C18_Witness ==
    /\ last.op = "call_one" /\ last.c = Groups
    /\ \/ Cardinality(FoundBefore(last.arg)) = 2 /\ last.exc = "ValueError"
       \/ /\ Cardinality(FoundBefore(last.arg)) = 1 /\ Len(colls[Groups].models) = 2
          /\ last.ret = colls[Groups].models[2] /\ last.arg = "g2"

\* n is a member of the collection record coll
IsMember(coll, n) == \E i \in 1..Len(coll.models) : coll.models[i] = n

\* the members of the list ms whose identifier is not that of model n, as
\* the heap stood before the last operation
Others(ms, n) ==
    LET differs(x) == IdentifierOf(last.before.nodes[x]) # IdentifierOf(last.before.nodes[n])
    IN SelectSeq(ms, differs)

\* C19: delete() on a model with an address issues exactly one gateway
\* call, a DELETE on the model's address; when the call succeeds the model
\* is no longer a member of its owning collection (whose other members stay,
\* in order), and when the call fails the membership is unchanged.
C19_DeleteRemovesFromCollection ==
    (last.op = "delete" /\ last.kind = "node") =>
        LET c == last.before.nodes[last.n].parent
        IN /\ last.ncalls = 1
           /\ LastCalls[1] = <<"DELETE", last.before.nodes[last.n].href>>
           /\ last.exc = "none" <=> last.answers[1] # "Error"
           /\ last.exc = "none" =>
                 /\ ~IsMember(colls[c], last.n)
                 /\ colls[c].models = Others(last.before.colls[c].models, last.n)
           /\ last.exc # "none" => colls[c].models = last.before.colls[c].models

\* a successful delete() of the second of two members, and a failed one
\* that leaves both
C19_Witness ==
    /\ last.op = "delete" /\ last.kind = "node"
    /\ Len(last.before.colls[Hosts].models) = 2
    /\ last.before.colls[Hosts].models[2] = last.n
    /\ \/ last.exc = "none" /\ colls[Hosts].models = <<last.before.colls[Hosts].models[1]>>
       \/ last.exc = "Error" /\ colls[Hosts].models = last.before.colls[Hosts].models

\* the collection's inflate() at the start of the last operation: the heap
\* as the operation found it, the gateway answering as it answered then
Materialized ==
    collection_inflate([nodes |-> last.before.nodes, colls |-> last.before.colls,
                        calls |-> <<>>, answers |-> last.answers, now |-> now,
                        handlers |-> handlers, published |-> <<>>, fired |-> <<>>],
                       last.c)

\* C20: update() and delete() of a collection first inflate it, with one
\* GET of the collection unless it is inflated already, and then issue the
\* model's PUT or DELETE once for every member the collection holds at that
\* point, in order, up to the first call that fails; after a delete() that
\* raised nothing the collection has no members.
C20_EveryMemberOnce ==
    (last.op \in {"update", "delete"} /\ last.kind = "coll") =>
        LET gets == Len(Materialized.w.calls)
            ms == Materialized.w.colls[last.c].models
            verb == IF last.op = "update" THEN "PUT" ELSE "DELETE"
        IN /\ gets = (IF last.before.colls[last.c].is_inflated THEN 0 ELSE 1)
           /\ last.before.colls[last.c].is_inflated => ms = last.before.colls[last.c].models
           /\ last.ncalls >= gets
           /\ gets = 1 => LastCalls[1] = <<"GET", CollAddress(last.c)>>
           /\ Materialized.exc # "none" => last.exc = Materialized.exc /\ last.ncalls = gets
           /\ Materialized.exc = "none" =>
                 /\ last.ncalls - gets <= Len(ms)
                 /\ \A i \in 1..(last.ncalls - gets) :
                       LastCalls[gets + i] = <<verb, Materialized.w.nodes[ms[i]].href>>
                 /\ last.exc = "none" <=>
                       \A i \in (gets + 1)..last.ncalls : last.answers[i] # "Error"
                 /\ last.exc = "none" =>
                       /\ last.ncalls - gets = Len(ms)
                       /\ colls[last.c].models = (IF last.op = "delete" THEN <<>> ELSE ms)
                 /\ last.exc # "none" => last.answers[last.ncalls] = "Error"

\* delete() of an inflated collection of two members: two DELETEs, one per
\* member, and no member left
C20_Witness ==
    /\ last.op = "delete" /\ last.kind = "coll" /\ last.exc = "none"
    /\ Len(last.before.colls[Hosts].models) = 2
    /\ last.ncalls = 2
    /\ LastCalls[1][2] # LastCalls[2][2]
    /\ colls[Hosts].models = <<>>

\* the last operation was an update() whose PUT the gateway answered with
\* the announcement of a job: load() received a 'Requests' section
JobLoaded == last.op = "update" /\ last.arg = "job" /\ last.ncalls >= 1

\* the model is a new Request built from the announcement, under
\* cluster.requests
IsNewJob(j, cl) ==
    /\ j # NoNode /\ j \notin DOMAIN last.before.nodes
    /\ nodes[j].cls = "Request" /\ nodes[j].parent = <<cl, "requests">>
    /\ nodes[j].href = JobHref /\ nodes[j].data = JobSection

\* C21 (as stated): load() of a response with a 'Requests' section, on a
\* model that is not a Request, assigns self.request from the section and
\* leaves the model's attribute bag, address and relationship cache as they
\* were.
C21_JobLoadLeavesModelUnchanged ==
    JobLoaded =>
        /\ IsNewJob(nodes[last.n].request, cluster(World(<<>>), last.n))
        /\ nodes[last.n].data = last.before.nodes[last.n].data
        /\ nodes[last.n].href = last.before.nodes[last.n].href
        /\ nodes[last.n].rels = last.before.nodes[last.n].rels

\* C21 (amended): the section is never merged into the attribute bag and
\* the address is unchanged.  load() reaches the job collection through
\* self.cluster.requests, a relationship access on the cluster: with the
\* cluster inflated it makes no gateway call, self.request is assigned, and
\* only the cluster's relationship cache gains 'requests'; a model other
\* than the cluster keeps attribute bag, relationship cache and inflation
\* state in every case; when the access raises (the GET that inflates the
\* cluster fails) load() raises too and self.request is left as it was.
C21_JobLoadAssignsLink ==
    JobLoaded =>
        LET old == last.before.nodes[last.n]
            new == nodes[last.n]
            cl == cluster(World(<<>>), last.n)
        IN /\ new.href = old.href
           /\ DOMAIN JobSection \cap DOMAIN new.data = {}
           /\ last.n # cl => /\ new.data = old.data /\ new.rels = old.rels
                             /\ new.is_inflated = old.is_inflated
           /\ last.exc = "none" => IsNewJob(new.request, cl) /\ "requests" \in nodes[cl].rels
           /\ last.exc # "none" => new.request = old.request
           /\ last.before.nodes[cl].is_inflated =>
                 /\ last.exc = "none" /\ last.ncalls = 1
                 /\ new.data = old.data
                 /\ new.rels = old.rels \cup (IF last.n = cl THEN {"requests"} ELSE {})

\* update() of a shallow host answered with a job: the host keeps its bag,
\* its address and its empty relationship cache and refers to the new job
C21_Witness ==
    /\ JobLoaded /\ last.exc = "none"
    /\ nodes[last.n].cls = "Host" /\ Shallow(last.before.nodes[last.n])
    /\ Shallow(nodes[last.n]) /\ nodes[last.n].rels = {}
    /\ IsNewJob(nodes[last.n].request, 1)

\* the last operation loaded a response that embeds the list of the
\* cluster's hosts (possibly an empty one)
EmbeddedLoaded ==
    /\ last.kind = "node" /\ last.op \in {"inflate", "refresh", "getrel"}
    /\ last.exc = "none" /\ last.ncalls = 1
    /\ last.answers[1] \in {"embedded", "noHosts"}

\* cluster.hosts followed by the enumeration of its members, from the
\* state reached, with a gateway that answers every call
EnumerateHosts(n) ==
    Then(getrel(World(<<"ok", "ok">>), n, "hosts"), LAMBDA r : iterate(r.w, <<n, "hosts">>))

\* C22: after load() of a response that embeds the data of a declared
\* relationship, be the embedded list empty or not, accessing the
\* relationship and enumerating its members issues no gateway call.
C22_EmbeddedRelationshipNeedsNoFetch ==
    EmbeddedLoaded =>
        /\ EnumerateHosts(last.n).exc = "none"
        /\ EnumerateHosts(last.n).w.calls = calls

\* C23: reading a declared field whose value is in the attribute bag returns
\* that value, issues no gateway call and leaves the model (inflation
\* state, attribute bag, relationship cache, job reference) as it was,
\* whether the model is inflated or not.
C23_PresentFieldReadIsPure ==
    (last.op = "getfield" /\ last.arg \in DOMAIN last.before.data) =>
        /\ last.exc = "none" /\ last.ncalls = 0
        /\ last.ret = last.before.data[last.arg]
        /\ nodes[last.n] = last.before

\* cluster.cluster_name on the shallow model client.clusters('c1') returned
C23_Witness ==
    /\ last.op = "getfield" /\ last.arg = "cluster_name" /\ last.ret = "c1"
    /\ Shallow(last.before) /\ Shallow(nodes[last.n])
    /\ calls = <<>>

\* the heap as the last operation found it, the gateway answering as it
\* answered then
WorldBefore ==
    [nodes |-> last.before.nodes, colls |-> last.before.colls, calls |-> <<>>,
     answers |-> last.answers, now |-> now, handlers |-> handlers,
     published |-> <<>>, fired |-> <<>>]

\* C24: wait() on a model whose class defines no completion predicate and
\* that refers to no job does what one inflate() does: no gateway call when
\* the model is inflated, at most one GET of the model otherwise, the
\* outcome and the heap that inflate() gives, and the model as its value
\* when nothing is raised.
C24_WaitInflatesOnce ==
    (last.op = "wait" /\ last.kind = "node") =>
        LET old == last.before.nodes[last.n]
            once == inflate(WorldBefore, last.n)
        IN /\ last.ncalls <= 1
           /\ old.is_inflated => last.ncalls = 0 /\ last.exc = "none"
           /\ last.ncalls = 1 => LastCalls[1] = <<"GET", Address(last.n)>>
           /\ last.exc = once.exc /\ last.ncalls = Len(once.w.calls)
           /\ nodes = once.w.nodes /\ colls = once.w.colls
           /\ last.exc = "none" => last.ret = last.n /\ nodes[last.n].is_inflated

\* wait() on the shallow cluster client.clusters('c2') returned: one GET,
\* the cluster returned inflated
C24_Witness ==
    /\ last.op = "wait" /\ last.kind = "node" /\ last.exc = "none"
    /\ Shallow(last.before.nodes[last.n])
    /\ last.ncalls = 1 /\ last.ret = last.n /\ nodes[last.n].is_inflated

\* C25: a collection called with several positional arguments behaves as
\* the collection called with the one list of those arguments; for a
\* dependent collection, collection(dict1, dict2) replaces the membership
\* as collection([dict1, dict2]) does.
C25_ArgumentsEquivalentToList ==
    (last.op = "call_args" /\ last.c = Groups) =>
        LET listed == dep_call_list(WorldBefore, Groups, last.arg)
        IN /\ last.exc = listed.exc
           /\ nodes = listed.w.nodes
           /\ colls = listed.w.colls


\* what the parts of the host string and the arguments call for: the
\* protocol and the port written in the host string first, the arguments
\* next, http and the protocol's default port last
WantedProtocol ==
    IF last.parts.proto # <<>> THEN last.parts.proto
    ELSE IF last.protocol # NoArg THEN last.protocol[2] ELSE HTTP
WantedPort ==
    IF last.parts.port # <<>> THEN StrArg(last.parts.port)
    ELSE IF last.port # NoArg THEN last.port
    ELSE IntArg(IF WantedProtocol = HTTP THEN 80 ELSE 443)
IntegerPort ==
    WantedPort[1] = "int" \/ IsDigits(WantedPort[2])
UrlCalled == last.op = "generate_base_url"

\* C26: generate_base_url returns protocol://host:port, an embedded protocol
\* or port winning over the arguments, http and the protocol's default port
\* (80, 443) filling in what is missing, any path dropped; a protocol other
\* than http and https, or a port that is not an integer, is an error
C26_BaseUrlFromParts ==
    UrlCalled =>
        IF WantedProtocol \notin {HTTP, HTTPS} \/ ~IntegerPort
        THEN last.exc # "none"
        ELSE /\ last.exc = "none"
             /\ last.ret = WantedProtocol \o <<":", "/", "/">> \o last.parts.name \o <<":">>
                              \o (IF WantedPort[1] = "int" THEN str(WantedPort[2])
                                  ELSE str(int(WantedPort[2])))

\* both predicates are true on the data the entity of the poll loop holds
BothNow == FailedNow(nodes[loop.target]) /\ FinishedNow(nodes[loop.target])

\* C27: in a poll cycle has_failed is tested before is_finished: a loop
\* whose entity has both predicates true never returns the entity, and the
\* cycle that finds it so raises Failed
C27_FailureTestedFirst ==
    (LoopEnded /\ BothNow) =>
        /\ loop.outcome # "returned"
        /\ (now < loop.end => loop.outcome = "Failed")

\* C27 witness: a refresh brought an entity with both predicates true and
\* the loop ended with Failed
C27_Witness ==
    /\ loop.outcome = "Failed" /\ BothNow /\ loop.refreshes >= 1
    /\ last.op = "wait" /\ last.exc = "Failed"

\* the last gateway call of the operation observed last raised
GatewayFailed ==
    last.answers # <<>> /\ last.answers[Len(last.answers)] = "Error"

\* the entity the operation observed last was invoked on, as the operation
\* found it and as it left it
EntityBefore ==
    IF last.kind = "node" THEN last.before.nodes[last.n] ELSE last.before.colls[last.c]
EntityAfter ==
    IF last.kind = "node" THEN nodes[last.n] ELSE colls[last.c]

\* C28: a gateway call that fails inside inflate, refresh, create, update
\* or delete of a node or a collection ends the operation with the gateway's
\* error, and the entity is as the operation found it: inflation state with
\* the inflating marker, attribute bag, relationship cache, membership
C28_FailedCallLeavesNoPartialState ==
    (last.op \in {"inflate", "refresh", "create", "update", "delete"} /\ GatewayFailed) =>
        /\ last.exc = "Error"
        /\ EntityAfter = EntityBefore

\* the last operation was a bulk update() or delete() whose collection was
\* inflated and one of whose members' operations raised
MidLoopFailure ==
    /\ last.kind = "coll" /\ last.op \in {"update", "delete"}
    /\ Materialized.exc = "none" /\ last.exc # "none"

\* the world in which member n met the gateway's i-th answer, the heap as it
\* was when the loop began
MemberWorld(n, i) ==
    [WorldBefore EXCEPT !.nodes = Materialized.w.nodes, !.colls = Materialized.w.colls,
                        !.answers = <<last.answers[i]>>]

\* C29: a member's operation that fails in a bulk update() or delete() ends
\* the loop there: the members before it stay updated, or deleted and out of
\* the membership; the failing member and the members after it are as they
\* were and still members; nothing is undone
C29_MidLoopFailureKeepsEarlierWork ==
    MidLoopFailure =>
        LET gets == Len(Materialized.w.calls)
            ms == Materialized.w.colls[last.c].models
            done == last.ncalls - gets - 1
        IN /\ done \in 0..(Len(ms) - 1)
           /\ \A i \in (done + 1)..Len(ms) :
                 /\ nodes[ms[i]] = Materialized.w.nodes[ms[i]]
                 /\ IsMember(colls[last.c], ms[i])
           /\ last.op = "delete" =>
                 /\ colls[last.c].models = SubSeq(ms, done + 1, Len(ms))
                 /\ \A i \in 1..done : ~IsMember(colls[last.c], ms[i])
           /\ last.op = "update" =>
                 /\ colls[last.c].models = ms
                 /\ \A i \in 1..done :
                       nodes[ms[i]] = update(MemberWorld(ms[i], gets + i), ms[i]).w.nodes[ms[i]]

\* C29 witness: delete() of an inflated collection of two members, the
\* first DELETE answered, the second raising: the second member is the
\* membership that is left
C29_Witness ==
    /\ MidLoopFailure /\ last.op = "delete"
    /\ Len(last.before.colls[Hosts].models) = 2 /\ last.ncalls = 2
    /\ colls[Hosts].models = <<last.before.colls[Hosts].models[2]>>

\* the threads whose GET of the shared model is in flight
InFlight == {t \in Threads : pw[t].pc = "await"}

\* C30 (as stated): an inflate() invoked while an earlier invocation on the
\* same model has started and not returned fails with ClientError and
\* issues no GET, however the two callers interleave; at most one GET of
\* the model is in flight at any time.
C30_LaterInflateAlwaysFails ==
    /\ Cardinality(InFlight) <= 1
    /\ \A t \in Threads :
          (pw[t].late /\ pw[t].pc = "done") => (pw[t].exc = "ClientError" /\ pw[t].gets = 0)

\* C30 (amended): an inflate() that reads the inflating marker while it is
\* set fails with ClientError and issues no GET; an invocation issues at
\* most one GET; two GETs of the model are in flight only when a caller
\* read the marker while another had passed its test and not returned.
C30_MarkerSeenSetFails ==
    /\ \A t \in Threads :
          /\ pw[t].gets <= 1
          /\ pw[t].saw = "set" => (pw[t].pc = "done" /\ pw[t].exc = "ClientError" /\ pw[t].gets = 0)
    /\ Cardinality(InFlight) > 1 => \E t \in InFlight : pw[t].overlap

\* C30 witness: a caller that started while another caller's GET was in
\* flight has failed with ClientError without a GET, the first GET still in
\* flight
C30_Witness ==
    \E t \in Threads, u \in InFlight :
        /\ t # u /\ pw[t].late /\ pw[t].pc = "done" /\ pw[t].saw = "set"
        /\ pw[t].exc = "ClientError" /\ pw[t].gets = 0
        /\ Len(calls) = 1

\* Host.wait stands in its loop over the inflate attempts, pw.x the number
\* of the attempt that comes next
InAttempts == pw.pc = "own" /\ pw.kind = "node" /\ nodes[pw.n].cls = "Host"

\* the GETs of the waiting host's address since wait() was called
HostGets == Cardinality({i \in DOMAIN calls : calls[i] = <<"GET", Address(pw.n)>>})

\* C31: Host.wait retries its inflate through not-found answers: while the
\* host is not inflated every attempt made so far issued a GET and was
\* absorbed, and the mark is clear, so that the next attempt issues a GET
\* again; the not-found of the 6th attempt is raised; once the host is
\* inflated the remaining attempts issue no GET; the attempts end with
\* ClientError only on a host that wait() found marked, before any GET
C31_HostWaitRetriesNotFound ==
    /\ InAttempts =>
          /\ pw.x \in 1..Attempts
          /\ pw.before.is_inflated => HostGets = 0
          /\ ~nodes[pw.n].is_inflated =>
                /\ HostGets = pw.x - 1
                /\ nodes[pw.n].is_inflating => (pw.x = 1 /\ pw.before.is_inflating)
          /\ (nodes[pw.n].is_inflated /\ ~pw.before.is_inflated) =>
                /\ HostGets \in 1..(pw.x - 1)
                /\ pw.before.request = NoNode => HostGets = (now \div RetrySleep) + 1
    /\ (last.op = "wait" /\ last.kind = "node" /\ nodes[last.n].cls = "Host" /\ pw.own) =>
          /\ last.exc = "ClientError" => (HostGets = 0 /\ pw.before.is_inflating)
          /\ last.exc = "NotFound" => (HostGets = Attempts /\ pw.x = Attempts)

\* C31 witness: two attempts were answered not-found, the third inflated
\* the host, the fourth issued no GET
C31_Witness ==
    /\ InAttempts /\ pw.x = 5 /\ nodes[pw.n].is_inflated /\ ~pw.before.is_inflated
    /\ HostGets = 3 /\ now = 2 * RetrySleep

\* a poll loop was set up by the wait() that pw describes
LoopOfWait == loop.outcome # "none" /\ pw.kind # "none"

\* C32: wait() uses the interval and the timeout the caller passed, and the
\* class's defaults only for an argument the caller did not pass; with an
\* explicit timeout of 0 the loop runs no cycle and raises Timeout at once
C32_ExplicitArgumentsWin ==
    LoopOfWait =>
        LET cls == nodes[loop.target].cls
        IN /\ loop.every = (IF pw.interval = None THEN default_interval(cls) ELSE pw.interval)
           /\ loop.end - loop.start =
                 (IF pw.timeout = None THEN default_timeout(cls) ELSE pw.timeout)
           /\ (LoopEnded /\ pw.timeout = 0) =>
                 (loop.outcome = "Timeout" /\ loop.refreshes = 0)

\* the keys of the registry that the publish call observed last can select:
\* a class of the publisher's chain, the event, the state published or ANY
Candidates ==
    {k \in DOMAIN handlers :
        /\ \E i \in 1..Len(Chain) : k[1] = Chain[i]
        /\ k[2] = last.arg[1] /\ k[3] \in {last.arg[2], "ANY"}}

\* callback cb is among the callbacks fired
Fired(cb) == \E i \in 1..Len(evlog.fired) : evlog.fired[i] = cb

\* C33: a publish fires the callbacks of one key, each once, in the order
\* of their registration, and no callback of another key; it fires nothing
\* when no key of the publisher's chain is registered for the event, and
\* nothing at all when the registry is empty
C33_OneKeyInRegistrationOrder ==
    last.op = "publish" =>
        /\ DOMAIN handlers = {} => evlog.fired = <<>>
        /\ \A i, j \in 1..Len(evlog.fired) : i # j => evlog.fired[i] # evlog.fired[j]
        /\ IF Candidates = {} THEN evlog.fired = <<>>
           ELSE \E k \in Candidates :
                   /\ evlog.fired = handlers[k]
                   /\ \A i \in 1..(Len(handlers[k]) - 1) : handlers[k][i] < handlers[k][i + 1]
                   /\ \A k2 \in DOMAIN handlers \ {k} :
                         \A i \in 1..Len(handlers[k2]) : ~Fired(handlers[k2][i])

\* C33 witness: two callbacks registered under one key have fired, the
\* first registered first
C33_Witness ==
    /\ last.op = "publish" /\ evlog.fired = <<1, 2>>
    /\ Cardinality(DOMAIN handlers) = 1

\* the address of collection c and of model n as the derivation rule gives
\* them on the heap: the API root and the segment for a collection without
\* parent, the parent's address and the segment otherwise; the direct
\* address of a model, or its collection's address and its identifier
RECURSIVE CollPath(_), NodePath(_)
CollPath(c) ==
    IF colls[c].parent = NoNode
    THEN <<"base_url", "api", "v1">> \o <<path(colls[c].model_class)>>
    ELSE NodePath(colls[c].parent) \o <<path(colls[c].model_class)>>
NodePath(n) ==
    IF nodes[n].href # NoHref THEN nodes[n].href
    ELSE CollPath(nodes[n].parent) \o <<nodes[n].data[primary_key(nodes[n].cls)]>>

\* the operation executed last was the first read of a missing field on a
\* model that has its primary key and no direct address
KeyedFirstRead ==
    /\ last.op = "getfield" /\ last.before.href = NoHref
    /\ primary_key(last.before.cls) \in DOMAIN last.before.data
    /\ last.arg \notin DOMAIN last.before.data
    /\ ~last.before.is_inflated /\ ~last.before.is_inflating

\* C34: a collection's address is its parent's address and the segment of
\* its class, the API root and the segment without parent; a model with
\* primary key and no direct address has its collection's address and its
\* identifier: the first read of a missing field GETs that address, and a
\* read of a field that is loaded issues no call
C34_AddressDerivation ==
    /\ (last.kind = "coll" /\ last.op = "inflate" /\ last.ncalls >= 1) =>
          LastCalls[1] = <<"GET", CollPath(last.c)>>
    /\ KeyedFirstRead =>
          LastCalls = << <<"GET", CollPath(last.before.parent)
                                     \o <<last.before.data[primary_key(last.before.cls)]>> >> >>
    /\ (last.op = "getfield" /\ last.arg \in DOMAIN last.before.data) =>
          (last.ncalls = 0 /\ last.exc = "none" /\ last.ret = last.before.data[last.arg])

\* C34 witness: the first read of health_report on Cluster(clusters,
\* data={'cluster_name': 'c1'}) fetched base_url/api/v1/clusters/c1 and
\* loaded the field
C34_Witness ==
    /\ KeyedFirstRead /\ last.exc = "none"
    /\ LastCalls = << <<"GET", <<"base_url", "api", "v1", "clusters", "c1">>>> >>
    /\ last.arg \in DOMAIN nodes[last.n].data

\* C35: a complete iteration over a collection hands out every member the
\* collection has, once each and in membership order: the first iteration,
\* every later one, and one begun after a call or a refresh replaced the
\* membership
C35_IterationYieldsEveryMember ==
    (last.op = "iterate" /\ last.exc = "none") => last.ret = colls[last.c].models

\* C36: calling a collection with a list restricts it to the listed members
\* for every list, the empty one included: after collection([]) the collection
\* is materialized and has no members
C36_EmptyListRestrictsToNothing ==
    (last.op = "call_list" /\ last.exc = "none") =>
        /\ colls[last.c].is_inflated
        /\ Len(colls[last.c].models) = Len(last.arg)

\* C37: inflate() and refresh() raise the insufficient-address error only on
\* a model that has neither a direct address nor a primary-key value, and
\* between operations (no inflate running) no model is marked as inflating;
\* so the inflate() after one whose gateway call failed issues a new GET
C37_InflatingOnlyDuringInflate ==
    /\ \A n \in NodeIds : ~nodes[n].is_inflating
    /\ (last.kind = "node" /\ last.op \in {"inflate", "refresh"} /\ last.exc = "ClientError")
          => ~HasAddress(last.before.nodes[last.n])

\* a poll loop of wait() is running
Polling == pw.pc \in {"job", "poll"}

\* C38: the poll loop returns only from a cycle that began before the
\* deadline, found the completion predicate true (and the failure predicate
\* false) and did not sleep or refresh; a round that begins at or after
\* the deadline examines nothing and fetches nothing: wait() ends with
\* Timeout whatever the refresh before it fetched
C38_NothingExaminedAfterDeadline ==
    [][/\ (Polling /\ loop'.outcome = "returned") =>
             /\ now < loop.end /\ now' = now /\ loop'.refreshes = loop.refreshes
             /\ FinishedNow(nodes'[loop.target]) /\ ~FailedNow(nodes'[loop.target])
       /\ (Polling /\ ~(now < loop.end)) =>
             /\ last'.op = "wait" /\ last'.exc = "Timeout" /\ pw'.pc = "idle"
             /\ nodes' = nodes /\ calls' = calls /\ now' = now]_vars

\* a wait() that ended with Timeout although the refresh that took it to
\* the deadline had fetched a finished entity
C38_Witness ==
    /\ last.op = "wait" /\ last.exc = "Timeout" /\ pw.pc = "idle"
    /\ loop.outcome = "Timeout" /\ loop.refreshes >= 1
    /\ FinishedNow(nodes[loop.target]) /\ ~FailedNow(nodes[loop.target])

\* the entity of the wait() in hand, and the entity as that wait() found it
Waited == IF pw.kind = "node" THEN nodes[pw.n] ELSE colls[pw.c]

\* C39: when the wait on the job attached to an entity raises Failed or
\* Timeout, the entity's wait() raises the same error, has issued no call
\* but the job's GETs and leaves the entity as it found it, job reference
\* included; the wait() on the entity that follows waits on that job again
C39_JobFailurePropagatesAndStaysAttached ==
    /\ (JobWaitRaised /\ last.op = "wait") =>
          /\ last.exc = loop.outcome
          /\ Waited = pw.before
          /\ Waited.request = loop.target /\ loop.target # NoNode
          /\ \A i \in 1..Len(calls) : calls[i] = <<"GET", Address(loop.target)>>
    /\ (pw.again /\ last.op = "waiting") =>
          /\ pw.before.request # NoNode
          /\ nodes[pw.before.request].cls = "Request"
          /\ ~pw.own => /\ pw.pc \in {"job", "own"}
                        /\ loop.target = pw.before.request
                        /\ pw.pc = "own" <=> loop.outcome = "returned"

\* a second wait() on an entity whose first wait() the job's failure ended:
\* it raised Failed again, out of the wait on the same job
C39_Witness ==
    /\ pw.again /\ JobWaitRaised /\ last.op = "wait" /\ last.exc = "Failed"
    /\ pw.waits = 2 /\ Waited.request = loop.target

\* C40: a load() that carries a job section makes the job it constructs the
\* entity's reference, whether or not the entity referred to a job before;
\* a wait() on an entity with a reference waits on the job referred to then,
\* issues GETs of that job's address only until the wait on it has
\* returned, and returns with the reference dropped: a job that was
\* replaced is never waited on
C40_NewestJobReplacesAndIsWaitedOn ==
    [][/\ (last'.op \in {"update", "start"} /\ Len(nodes') > Len(nodes)) =>
             /\ nodes'[Len(nodes')].cls = "Request"
             /\ (IF last'.kind = "node" THEN nodes'[last'.n].request
                 ELSE colls'[last'.c].request) = Len(nodes')
       /\ (pw.pc = "idle" /\ pw'.pc # "idle" /\ Link(pw'.kind, pw'.n, pw'.c) # NoNode) =>
             /\ pw'.pc = "job" /\ loop'.target = Link(pw'.kind, pw'.n, pw'.c)
       /\ (pw.pc = "job") =>
             /\ loop'.target = pw.before.request
             /\ \A i \in 1..Len(calls') :
                   calls'[i] = <<"GET", url(World(<<>>), loop.target).val>>
       /\ (last'.op = "wait" /\ last'.exc = "none" /\ pw.pc # "idle") =>
             (IF pw.kind = "node" THEN nodes'[pw.n].request
              ELSE colls'[pw.c].request) = NoNode]_vars

\* cluster.update() twice, each answered with a job, then cluster.wait():
\* it waited on the second job, returned, and the first job was never read
C40_Witness ==
    /\ last.op = "wait" /\ last.exc = "none" /\ pw.kind = "node" /\ pw.waits = 1
    /\ Cardinality(Jobs) = 2 /\ colls[Services].request = NoNode
    /\ \A j \in Jobs : j <= pw.before.request
    /\ \E j \in Jobs : j # pw.before.request /\ ~nodes[j].is_inflated
    /\ nodes[pw.n].request = NoNode

====
